---- MODULE Spec2Model ----
(***************************************************************************)
(* Model of the swimcheck validation scripts:                              *)
(*   validate-time-format.js      (FormatValidator)                        *)
(*   validate-time-progression.js (ProgressionValidator)                   *)
(*   update-readme-inconsistencies.js (the table of the README)            *)
(*   validate-json-structure.js and validate-all.sh (the suite)            *)
(* A document is one event of one age group / gender with its three        *)
(* course records; a time value is null or a string, and a string is a     *)
(* sequence of UTF-16 code units (one-character strings here).             *)
(***************************************************************************)
EXTENDS Integers, Sequences, FiniteSets, TLC

VARIABLES
    doc,        \* the JSON document (file content between runs)
    issues,     \* issue list returned by the last validator run
    last,       \* which validator ran last: "none", "format", "progression"
    pre,        \* the document the last run was given
    prior,      \* which validator ran before the last one
    preIssues,  \* issue list returned by the run before the last one
    kind,       \* what the JSON file is: a document, or something unusable
    exit,       \* the exit status of the last script run ({} before any)
    written,    \* whether the last script run wrote its file
    pc,         \* the next step of validate-all.sh ("idle": not running)
    steps,      \* the steps validate-all.sh has run, with their exit status
    FORMAT_ISSUES,       \* shell variables of validate-all.sh
    PROGRESSION_ISSUES,
    COMBINED_ISSUES,
    readme,     \* the text of the README
    sortedIssues,  \* the sorted array the last table was rendered from
    newTable,   \* the text the last call of generateTable returned
    readmeContent,  \* the text of the README the last run of the updater read
    stored,     \* swim_time_standards.json as check-for-new-pdf.js finds it
    page,       \* what fetching the time standards page gives
    pdfResult   \* what checkForNewPDF returned ("none" before it ran)

vars == <<doc, issues, last, pre, prior, preIssues, kind, exit, written, pc,
          steps, FORMAT_ISSUES, PROGRESSION_ISSUES, COMBINED_ISSUES, readme,
          sortedIssues, newTable, readmeContent, stored, page, pdfResult>>

\* what only validate-all.sh and the README updater read and write
suiteVars == <<pc, steps, FORMAT_ISSUES, PROGRESSION_ISSUES, COMBINED_ISSUES, readme,
               sortedIssues, newTable, readmeContent>>

\* what only check-for-new-pdf.js reads and writes
pdfVars == <<stored, page, pdfResult>>

-----------------------------------------------------------------------------
(* Strings *)

\* The two UTF-16 code units of the warning emoji: U+26A0 U+FE0F.
WARNING_EMOJI == <<"WS", "VS">>

Digits == {"0", "1", "2", "3", "4", "5", "6", "7", "8", "9"}

DigitVal ==
    [d \in Digits |->
        CASE d = "0" -> 0 [] d = "1" -> 1 [] d = "2" -> 2 [] d = "3" -> 3
          [] d = "4" -> 4 [] d = "5" -> 5 [] d = "6" -> 6 [] d = "7" -> 7
          [] d = "8" -> 8 [] d = "9" -> 9]

IsDigits(s) == \A i \in 1..Len(s) : s[i] \in Digits

RECURSIVE parseInt(_)
\* parseInt of a non-empty string of decimal digits
parseInt(s) ==
    IF s = <<>> THEN 0
    ELSE parseInt(SubSeq(s, 1, Len(s) - 1)) * 10 + DigitVal[s[Len(s)]]

\* String.prototype.indexOf, 1-based; 0 when pat does not occur in s
IndexOf(s, pat) ==
    LET hits == {i \in 1..(Len(s) - Len(pat) + 1) :
                    SubSeq(s, i, i + Len(pat) - 1) = pat}
    IN IF hits = {} THEN 0 ELSE CHOOSE i \in hits : \A j \in hits : i <= j

\* String.prototype.includes
includes(s, pat) == IndexOf(s, pat) # 0

\* String.prototype.replace(pat, '') with a string pattern: first occurrence only
replaceFirst(s, pat) ==
    LET i == IndexOf(s, pat)
    IN IF i = 0 THEN s
       ELSE SubSeq(s, 1, i - 1) \o SubSeq(s, i + Len(pat), Len(s))

-----------------------------------------------------------------------------
(* Values of a leaf: null or a string *)

Null == [isNull |-> TRUE, s |-> <<>>]
Str(t) == [isNull |-> FALSE, s |-> t]

\* JavaScript falsiness of a leaf value: null and '' are falsy
Falsy(v) == v.isNull \/ v.s = <<>>

stripWarning(v) ==
    IF Falsy(v) THEN v ELSE Str(replaceFirst(v.s, WARNING_EMOJI))

NoMatch == [ok |-> FALSE, g1 |-> <<>>, g2 |-> <<>>, g3 |-> <<>>]

\* /^(\d+):(\d{2})\.(\d{2})$/
withMinutes(t) ==
    LET n == Len(t)
    IN IF /\ n >= 7
          /\ t[n - 5] = ":"
          /\ t[n - 2] = "."
          /\ IsDigits(SubSeq(t, 1, n - 6))
          /\ IsDigits(SubSeq(t, n - 4, n - 3))
          /\ IsDigits(SubSeq(t, n - 1, n))
       THEN [ok |-> TRUE, g1 |-> SubSeq(t, 1, n - 6),
             g2 |-> SubSeq(t, n - 4, n - 3), g3 |-> SubSeq(t, n - 1, n)]
       ELSE NoMatch

\* /^(\d{1,2})\.(\d{2})$/
withoutMinutes(t) ==
    LET n == Len(t)
    IN IF /\ n \in {4, 5}
          /\ t[n - 2] = "."
          /\ IsDigits(SubSeq(t, 1, n - 3))
          /\ IsDigits(SubSeq(t, n - 1, n))
       THEN [ok |-> TRUE, g1 |-> SubSeq(t, 1, n - 3),
             g2 |-> SubSeq(t, n - 1, n), g3 |-> <<>>]
       ELSE NoMatch

-----------------------------------------------------------------------------
(* validate-time-progression.js *)

\* null stands for "null if invalid/null"
NoTime == -1

\* lines 38-55: the value of the first pattern that matched
matchTocentiseconds(m1, m2) ==
    IF m1.ok
    THEN parseInt(m1.g1) * 60 * 100 + parseInt(m1.g2) * 100 + parseInt(m1.g3)
    ELSE IF m2.ok
         THEN parseInt(m2.g1) * 100 + parseInt(m2.g2)
         ELSE NoTime

cleanTimeTocentiseconds(cleanTime) ==
    matchTocentiseconds(withMinutes(cleanTime), withoutMinutes(cleanTime))

\* the parse without the call of stripWarning
timeTocentiseconds_unstripped(timeStr) ==
    IF Falsy(timeStr) THEN NoTime
    ELSE cleanTimeTocentiseconds(timeStr.s)

timeTocentiseconds(timeStr) ==
    IF Falsy(timeStr) THEN NoTime
    ELSE cleanTimeTocentiseconds(stripWarning(timeStr).s)

\* the verdict with > in place of >= between A and B+
progressionOf_equalAllowed(csA, csBPlus, csB) ==
    IF csA = NoTime \/ csBPlus = NoTime \/ csB = NoTime
    THEN [valid |-> TRUE, issue |-> "none"]
    ELSE IF csA > csBPlus
         THEN [valid |-> FALSE, issue |-> "Invalid progression"]
         ELSE IF csBPlus >= csB
              THEN [valid |-> FALSE, issue |-> "Invalid progression"]
              ELSE [valid |-> TRUE, issue |-> "none"]

\* the verdict that compares every pair of parsed times, a null third or not
progressionOf_pairwise(csA, csBPlus, csB) ==
    IF \/ csA # NoTime /\ csBPlus # NoTime /\ csA >= csBPlus
       \/ csBPlus # NoTime /\ csB # NoTime /\ csBPlus >= csB
    THEN [valid |-> FALSE, issue |-> "Invalid progression"]
    ELSE [valid |-> TRUE, issue |-> "none"]

\* lines 68-82: the verdict on the three parsed times
progressionOf(csA, csBPlus, csB) ==
    IF csA = NoTime \/ csBPlus = NoTime \/ csB = NoTime
    THEN [valid |-> TRUE, issue |-> "none"]
    ELSE IF csA >= csBPlus
         THEN [valid |-> FALSE, issue |-> "Invalid progression"]
         ELSE IF csBPlus >= csB
              THEN [valid |-> FALSE, issue |-> "Invalid progression"]
              ELSE [valid |-> TRUE, issue |-> "none"]

validateProgression(timeA, timeBPlus, timeB) ==
    progressionOf(timeTocentiseconds(timeA), timeTocentiseconds(timeBPlus),
                  timeTocentiseconds(timeB))

-----------------------------------------------------------------------------
(* validate-time-format.js *)

\* lines 259-297: the verdict on the two pattern matches
formatOf(m1, m2) ==
    IF m1.ok
    THEN IF parseInt(m1.g2) >= 60
         THEN [valid |-> FALSE, issue |-> "Invalid format"]
         ELSE IF parseInt(m1.g3) >= 100
              THEN [valid |-> FALSE, issue |-> "Invalid format"]
              ELSE [valid |-> TRUE, issue |-> "none"]
    ELSE IF m2.ok
         THEN IF parseInt(m2.g1) >= 60
              THEN [valid |-> FALSE, issue |-> "Invalid format"]
              ELSE IF parseInt(m2.g2) >= 100
                   THEN [valid |-> FALSE, issue |-> "Invalid format"]
                   ELSE [valid |-> TRUE, issue |-> "none"]
         ELSE [valid |-> FALSE, issue |-> "Invalid format"]

validateCleanTime(cleanTime) ==
    formatOf(withMinutes(cleanTime), withoutMinutes(cleanTime))

\* the validation of the value as it stands, marker included
validateTimeFormat_unstripped(timeStr) ==
    IF Falsy(timeStr) THEN [valid |-> TRUE, issue |-> "none"]
    ELSE validateCleanTime(timeStr.s)

validateTimeFormat(timeStr) ==
    IF Falsy(timeStr) THEN [valid |-> TRUE, issue |-> "none"]
    ELSE validateCleanTime(stripWarning(timeStr).s)

-----------------------------------------------------------------------------
(* The document: one age group, one gender, one event, three courses *)

CourseOrder == <<"SCY", "SCM", "LCM">>
Courses == {"SCY", "SCM", "LCM"}
StandardOrder == <<"A", "B+", "B">>
Standards == {"A", "B+", "B"}

Age == <<"1", "0">>
Gender == "Girls"
EventName == <<"5", "0", " ", "F", "r", "e", "e">>

\* event[course]: present with its three standards, or missing from the event
MissingCourse == [present |-> FALSE, times |-> [st \in Standards |-> Null]]
CourseTimes(a, bp, b) ==
    [present |-> TRUE,
     times |-> [st \in Standards |->
                  IF st = "A" THEN a ELSE IF st = "B+" THEN bp ELSE b]]

Issue(course, standard, value, text) ==
    [age |-> Age, gender |-> Gender, event |-> EventName, course |-> course,
     standard |-> standard, value |-> value, issue |-> text]

\* the flagging that puts the marker in front of the value
flagFormat_prepend(course, standard, timeValue, validation, marked) ==
    IF ~validation.valid
    THEN [value |-> IF ~marked THEN Str(WARNING_EMOJI \o timeValue.s) ELSE timeValue,
          issues |-> <<Issue(course, standard,
                             IF marked THEN timeValue.s
                                       ELSE WARNING_EMOJI \o timeValue.s,
                             validation.issue)>>]
    ELSE [value |-> timeValue, issues |-> <<>>]

\* the flagging without the test for a marker already in the value
flagFormat_alwaysAppend(course, standard, timeValue, validation, marked) ==
    IF ~validation.valid
    THEN [value |-> Str(timeValue.s \o WARNING_EMOJI),
          issues |-> <<Issue(course, standard, timeValue.s \o WARNING_EMOJI,
                             validation.issue)>>]
    ELSE [value |-> timeValue, issues |-> <<>>]

\* the flagging that reports the value as it was read
flagFormat_reportsRead(course, standard, timeValue, validation, marked) ==
    IF ~validation.valid
    THEN [value |-> IF ~marked THEN Str(timeValue.s \o WARNING_EMOJI) ELSE timeValue,
          issues |-> <<Issue(course, standard, timeValue.s, validation.issue)>>]
    ELSE [value |-> timeValue, issues |-> <<>>]

\* validate-time-format.js lines 330-345: the new value of a leaf and the
\* issues pushed for it, given the verdict on it
flagFormat(course, standard, timeValue, validation, marked) ==
    IF ~validation.valid
    THEN [value |-> IF ~marked THEN Str(timeValue.s \o WARNING_EMOJI) ELSE timeValue,
          issues |-> <<Issue(course, standard,
                             IF marked THEN timeValue.s
                                       ELSE timeValue.s \o WARNING_EMOJI,
                             validation.issue)>>]
    ELSE [value |-> timeValue, issues |-> <<>>]

\* the loop body that also returns early on a value already marked
FormatStandard_skipMarked(course, standard, timeValue) ==
    IF timeValue.isNull \/ includes(timeValue.s, WARNING_EMOJI)
    THEN [value |-> timeValue, issues |-> <<>>]
    ELSE flagFormat(course, standard, timeValue, validateTimeFormat(timeValue),
                    includes(timeValue.s, WARNING_EMOJI))

\* validate-time-format.js, the body of the loop over the three standards
FormatStandard(course, standard, timeValue) ==
    IF timeValue.isNull THEN [value |-> timeValue, issues |-> <<>>]
    ELSE flagFormat(course, standard, timeValue, validateTimeFormat(timeValue),
                    includes(timeValue.s, WARNING_EMOJI))

\* the loop over the three standards of one course
FormatCourse(course, a, bp, b) ==
    [times |-> [st \in Standards |->
                  IF st = "A" THEN a.value ELSE IF st = "B+" THEN bp.value
                  ELSE b.value],
     issues |-> a.issues \o bp.issues \o b.issues]

\* the loop over the three courses: a missing course is skipped
FormatEvent(data, course) ==
    IF ~data[course].present
    THEN [times |-> data[course].times, issues |-> <<>>]
    ELSE FormatCourse(course,
                      FormatStandard(course, "A", data[course].times["A"]),
                      FormatStandard(course, "B+", data[course].times["B+"]),
                      FormatStandard(course, "B", data[course].times["B"]))

\* { data, issues } from the results of the three courses
Collect(data, scy, scm, lcm) ==
    [data |-> [c \in Courses |->
                 [present |-> data[c].present,
                  times |-> IF c = "SCY" THEN scy.times
                            ELSE IF c = "SCM" THEN scm.times ELSE lcm.times]],
     issues |-> scy.issues \o scm.issues \o lcm.issues]

\* validate-time-format.js processTimeStandards
processTimeStandardsFormat(data) ==
    Collect(data, FormatEvent(data, "SCY"), FormatEvent(data, "SCM"),
            FormatEvent(data, "LCM"))

\* the flagging that writes the B+ text into B
flagProgression_copyPaste(course, times, validation, csA, csBPlus, csB, markedBPlus, markedB) ==
    [times |-> [st \in Standards |->
                  IF /\ st = "B+"
                     /\ csA # NoTime /\ csBPlus # NoTime /\ csA >= csBPlus
                     /\ ~Falsy(times[st]) /\ ~markedBPlus
                  THEN Str(times[st].s \o WARNING_EMOJI)
                  ELSE IF /\ st = "B"
                          /\ csBPlus # NoTime /\ csB # NoTime /\ csBPlus >= csB
                          /\ ~Falsy(times[st]) /\ ~markedB
                       THEN Str(times["B+"].s \o WARNING_EMOJI)
                       ELSE times[st]],
     issues |->
        (IF csA # NoTime /\ csBPlus # NoTime /\ csA >= csBPlus
         THEN <<Issue(course, "B+",
                      IF ~Falsy(times["B+"]) /\ ~markedBPlus
                      THEN times["B+"].s \o WARNING_EMOJI ELSE times["B+"].s,
                      validation.issue)>>
         ELSE <<>>)
        \o (IF csBPlus # NoTime /\ csB # NoTime /\ csBPlus >= csB
            THEN <<Issue(course, "B",
                         IF ~Falsy(times["B"]) /\ ~markedB
                         THEN times["B+"].s \o WARNING_EMOJI ELSE times["B"].s,
                         validation.issue)>>
            ELSE <<>>)]

\* the flagging with the second test chained to the first by an else: B is
\* looked at only when B+ was not flagged
flagProgression_elseIf(course, times, validation, csA, csBPlus, csB, markedBPlus, markedB) ==
    IF csA # NoTime /\ csBPlus # NoTime /\ csA >= csBPlus
    THEN [times |-> [st \in Standards |->
                       IF st = "B+" /\ ~Falsy(times[st]) /\ ~markedBPlus
                       THEN Str(times[st].s \o WARNING_EMOJI) ELSE times[st]],
          issues |-> <<Issue(course, "B+",
                             IF ~Falsy(times["B+"]) /\ ~markedBPlus
                             THEN times["B+"].s \o WARNING_EMOJI ELSE times["B+"].s,
                             validation.issue)>>]
    ELSE [times |-> [st \in Standards |->
                       IF st = "B" /\ ~Falsy(times[st]) /\ ~markedB
                       THEN Str(times[st].s \o WARNING_EMOJI) ELSE times[st]],
          issues |-> <<Issue(course, "B",
                             IF ~Falsy(times["B"]) /\ ~markedB
                             THEN times["B"].s \o WARNING_EMOJI ELSE times["B"].s,
                             validation.issue)>>]

\* the flagging that marks B+ whenever the progression is invalid
flagProgression_alwaysBPlus(course, times, validation, csA, csBPlus, csB, markedBPlus, markedB) ==
    [times |-> [st \in Standards |->
                  IF st = "B+" /\ ~Falsy(times[st]) /\ ~markedBPlus
                  THEN Str(times[st].s \o WARNING_EMOJI)
                  ELSE IF /\ st = "B"
                          /\ csBPlus >= csB
                          /\ ~Falsy(times[st]) /\ ~markedB
                       THEN Str(times[st].s \o WARNING_EMOJI)
                       ELSE times[st]],
     issues |->
        <<Issue(course, "B+",
                IF ~Falsy(times["B+"]) /\ ~markedBPlus
                THEN times["B+"].s \o WARNING_EMOJI ELSE times["B+"].s,
                validation.issue)>>
        \o (IF csBPlus >= csB
            THEN <<Issue(course, "B",
                         IF ~Falsy(times["B"]) /\ ~markedB
                         THEN times["B"].s \o WARNING_EMOJI ELSE times["B"].s,
                         validation.issue)>>
            ELSE <<>>)]

\* the flagging with the test of B in front of the test of B+
flagProgression_BFirst(course, times, validation, csA, csBPlus, csB, markedBPlus, markedB) ==
    [times |-> [st \in Standards |->
                  IF /\ st = "B+"
                     /\ csA # NoTime /\ csBPlus # NoTime /\ csA >= csBPlus
                     /\ ~Falsy(times[st]) /\ ~markedBPlus
                  THEN Str(times[st].s \o WARNING_EMOJI)
                  ELSE IF /\ st = "B"
                          /\ csBPlus # NoTime /\ csB # NoTime /\ csBPlus >= csB
                          /\ ~Falsy(times[st]) /\ ~markedB
                       THEN Str(times[st].s \o WARNING_EMOJI)
                       ELSE times[st]],
     issues |->
        (IF csBPlus # NoTime /\ csB # NoTime /\ csBPlus >= csB
        THEN <<Issue(course, "B",
                     IF ~Falsy(times["B"]) /\ ~markedB
                     THEN times["B"].s \o WARNING_EMOJI ELSE times["B"].s,
                     validation.issue)>>
        ELSE <<>>)
        \o (IF csA # NoTime /\ csBPlus # NoTime /\ csA >= csBPlus
            THEN <<Issue(course, "B+",
                         IF ~Falsy(times["B+"]) /\ ~markedBPlus
                         THEN times["B+"].s \o WARNING_EMOJI ELSE times["B+"].s,
                         validation.issue)>>
            ELSE <<>>)]

\* the flagging of the comment at line 124: both A and B+ get the marker
flagProgression_bothAAndBPlus(course, times, validation, csA, csBPlus, csB, markedBPlus, markedB) ==
    [times |-> [st \in Standards |->
                  IF /\ st \in {"A", "B+"}
                     /\ csA # NoTime /\ csBPlus # NoTime /\ csA >= csBPlus
                     /\ ~Falsy(times[st]) /\ ~includes(times[st].s, WARNING_EMOJI)
                  THEN Str(times[st].s \o WARNING_EMOJI)
                  ELSE IF /\ st = "B"
                          /\ csBPlus # NoTime /\ csB # NoTime /\ csBPlus >= csB
                          /\ ~Falsy(times[st]) /\ ~markedB
                       THEN Str(times[st].s \o WARNING_EMOJI)
                       ELSE times[st]],
     issues |->
        (IF csA # NoTime /\ csBPlus # NoTime /\ csA >= csBPlus
         THEN <<Issue(course, "B+",
                      IF ~Falsy(times["B+"]) /\ ~markedBPlus
                      THEN times["B+"].s \o WARNING_EMOJI ELSE times["B+"].s,
                      validation.issue)>>
         ELSE <<>>)
        \o (IF csBPlus # NoTime /\ csB # NoTime /\ csBPlus >= csB
            THEN <<Issue(course, "B",
                         IF ~Falsy(times["B"]) /\ ~markedB
                         THEN times["B"].s \o WARNING_EMOJI ELSE times["B"].s,
                         validation.issue)>>
            ELSE <<>>)]

\* validate-time-progression.js lines 126-156: the standards flagged and the
\* issues pushed for one course whose progression is invalid
flagProgression(course, times, validation, csA, csBPlus, csB, markedBPlus, markedB) ==
    [times |-> [st \in Standards |->
                  IF /\ st = "B+"
                     /\ csA # NoTime /\ csBPlus # NoTime /\ csA >= csBPlus
                     /\ ~Falsy(times[st]) /\ ~markedBPlus
                  THEN Str(times[st].s \o WARNING_EMOJI)
                  ELSE IF /\ st = "B"
                          /\ csBPlus # NoTime /\ csB # NoTime /\ csBPlus >= csB
                          /\ ~Falsy(times[st]) /\ ~markedB
                       THEN Str(times[st].s \o WARNING_EMOJI)
                       ELSE times[st]],
     issues |->
        (IF csA # NoTime /\ csBPlus # NoTime /\ csA >= csBPlus
         THEN <<Issue(course, "B+",
                      IF ~Falsy(times["B+"]) /\ ~markedBPlus
                      THEN times["B+"].s \o WARNING_EMOJI ELSE times["B+"].s,
                      validation.issue)>>
         ELSE <<>>)
        \o (IF csBPlus # NoTime /\ csB # NoTime /\ csBPlus >= csB
            THEN <<Issue(course, "B",
                         IF ~Falsy(times["B"]) /\ ~markedB
                         THEN times["B"].s \o WARNING_EMOJI ELSE times["B"].s,
                         validation.issue)>>
            ELSE <<>>)]

\* the check that takes no value to be marked already
checkProgression_alwaysAppend(course, times, validation) ==
    IF validation.valid THEN [times |-> times, issues |-> <<>>]
    ELSE flagProgression(course, times, validation,
                         timeTocentiseconds(times["A"]),
                         timeTocentiseconds(times["B+"]),
                         timeTocentiseconds(times["B"]),
                         FALSE, FALSE)

\* lines 114-157: nothing happens to a course whose progression is valid
checkProgression(course, times, validation) ==
    IF validation.valid THEN [times |-> times, issues |-> <<>>]
    ELSE flagProgression(course, times, validation,
                         timeTocentiseconds(times["A"]),
                         timeTocentiseconds(times["B+"]),
                         timeTocentiseconds(times["B"]),
                         includes(times["B+"].s, WARNING_EMOJI),
                         includes(times["B"].s, WARNING_EMOJI))

\* validate-time-progression.js, the body of the loop over the three courses
ProgressionCourse(data, course) ==
    IF ~data[course].present
    THEN [times |-> data[course].times, issues |-> <<>>]
    ELSE checkProgression(course, data[course].times,
                          validateProgression(data[course].times["A"],
                                              data[course].times["B+"],
                                              data[course].times["B"]))

\* validate-time-progression.js processTimeStandards
processTimeStandardsProgression(data) ==
    Collect(data, ProgressionCourse(data, "SCY"), ProgressionCourse(data, "SCM"),
            ProgressionCourse(data, "LCM"))

-----------------------------------------------------------------------------
(* update-readme-inconsistencies.js *)

\* formatAgeGender: gender, a space, age
formatAgeGender(age, gender) == <<gender, " ">> \o age

\* the start and the end of the first run of digits of s from position i on
DigitsFrom(s, i) == {j \in i..Len(s) : s[j] \in Digits}
DigitRunEnd(s, i) ==
    CHOOSE j \in i..Len(s) :
        /\ \A k \in i..j : s[k] \in Digits
        /\ j = Len(s) \/ s[j + 1] \notin Digits

\* age.match(/(\d+)/): 999 without a digit
getAgeNumericValue(age) ==
    IF DigitsFrom(age, 1) = {} THEN 999
    ELSE LET i == CHOOSE j \in DigitsFrom(age, 1) : \A k \in DigitsFrom(age, 1) : j <= k
         IN parseInt(SubSeq(age, i, DigitRunEnd(age, i)))

isAgeRange(age) == \E i \in 1..Len(age) : age[i] = "-"

\* the hyphens of age with a digit on either side: the places where
\* /(\d+)-(\d+)/ can match
RangeHyphens(age) ==
    {i \in 2..(Len(age) - 1) :
        age[i] = "-" /\ age[i - 1] \in Digits /\ age[i + 1] \in Digits}

\* the second group of the leftmost match of /(\d+)-(\d+)/
rangeEnd(age, hyphens) ==
    IF hyphens = {} THEN 999
    ELSE LET i == CHOOSE j \in hyphens : \A k \in hyphens : j <= k
         IN parseInt(SubSeq(age, i + 1, DigitRunEnd(age, i + 1)))

getAgeEndValue(age) ==
    IF isAgeRange(age) THEN rangeEnd(age, RangeHyphens(age))
    ELSE getAgeNumericValue(age)

courseOrder == <<"SCY", "SCM", "LCM">>
standardOrder == <<"A", "B+", "B">>

\* array.indexOf(x): the index from 0, -1 when x is not in the array
indexOf(array, x) ==
    IF \E i \in 1..Len(array) : array[i] = x
    THEN (CHOOSE i \in 1..Len(array) :
            array[i] = x /\ \A j \in 1..(i - 1) : array[j] # x) - 1
    ELSE -1

sortOrderOf(index) == IF index = -1 THEN 999 ELSE index

\* the courses in lexical order
getCourseSortOrder_lexical(course) ==
    sortOrderOf(indexOf(<<"LCM", "SCM", "SCY">>, course))

getCourseSortOrder(course) == sortOrderOf(indexOf(courseOrder, course))

\* the standards in lexical order
getStandardSortOrder_lexical(standard) ==
    sortOrderOf(indexOf(<<"A", "B", "B+">>, standard))

getStandardSortOrder(standard) == sortOrderOf(indexOf(standardOrder, standard))

\* the letters in collation order, in lower and in upper case
LowerCase ==
    <<"a", "b", "c", "d", "e", "f", "g", "h", "i", "j", "k", "l", "m",
      "n", "o", "p", "q", "r", "s", "t", "u", "v", "w", "x", "y", "z">>
UpperCase ==
    <<"A", "B", "C", "D", "E", "F", "G", "H", "I", "J", "K", "L", "M",
      "N", "O", "P", "Q", "R", "S", "T", "U", "V", "W", "X", "Y", "Z">>

\* the collation rank of a character of an event name: space, digits, letters
CharRank(ch) ==
    IF ch = " " THEN 0
    ELSE IF ch \in Digits THEN 1 + DigitVal[ch]
    ELSE IF indexOf(LowerCase, ch) # -1 THEN 11 + indexOf(LowerCase, ch)
    ELSE IF indexOf(UpperCase, ch) # -1 THEN 11 + indexOf(UpperCase, ch)
    ELSE 40

\* a.localeCompare(b) on event names: negative, zero or positive
RECURSIVE localeCompare(_, _)
localeCompare(a, b) ==
    IF a = <<>> /\ b = <<>> THEN 0
    ELSE IF a = <<>> THEN -1
    ELSE IF b = <<>> THEN 1
    ELSE IF CharRank(Head(a)) < CharRank(Head(b)) THEN -1
    ELSE IF CharRank(Head(a)) > CharRank(Head(b)) THEN 1
    ELSE localeCompare(Tail(a), Tail(b))

\* every label sorts by its first number
ageSortValue_start(age) == getAgeNumericValue(age)

\* lines 98-99: ranges sort by their end value, single ages by their number
ageSortValue(age) ==
    IF isAgeRange(age) THEN getAgeEndValue(age) ELSE getAgeNumericValue(age)

\* the comparator with the gender compared behind the event
compareWithinAge_eventFirst(a, b) ==
    IF a.event # b.event
    THEN localeCompare(a.event, b.event)
    ELSE IF a.gender # b.gender
         THEN (IF a.gender = "Girls" THEN -1 ELSE 1)
         ELSE IF getCourseSortOrder(a.course) - getCourseSortOrder(b.course) # 0
              THEN getCourseSortOrder(a.course) - getCourseSortOrder(b.course)
              ELSE getStandardSortOrder(a.standard) - getStandardSortOrder(b.standard)

\* lines 109-122 of the comparator: gender, event, course, standard
compareWithinAge(a, b) ==
    IF a.gender # b.gender
    THEN (IF a.gender = "Girls" THEN -1 ELSE 1)
    ELSE IF a.event # b.event
         THEN localeCompare(a.event, b.event)
         ELSE IF getCourseSortOrder(a.course) - getCourseSortOrder(b.course) # 0
              THEN getCourseSortOrder(a.course) - getCourseSortOrder(b.course)
              ELSE getStandardSortOrder(a.standard) - getStandardSortOrder(b.standard)

\* lines 100-107 of the comparator, given the two sort values
compareAges(a, b, aSortValue, bSortValue) ==
    IF aSortValue - bSortValue # 0 THEN aSortValue - bSortValue
    ELSE IF isAgeRange(a.age) # isAgeRange(b.age)
         THEN (IF isAgeRange(a.age) THEN 1 ELSE -1)
         ELSE compareWithinAge(a, b)

\* the comparator of issues.sort
compareIssues(a, b) ==
    compareAges(a, b, ageSortValue(a.age), ageSortValue(b.age))

\* a sort that keeps one of two elements the comparator calls equal
RECURSIVE insertSorted_dropTies(_, _)
insertSorted_dropTies(sorted, x) ==
    IF sorted = <<>> THEN <<x>>
    ELSE IF compareIssues(sorted[Len(sorted)], x) = 0 THEN sorted
    ELSE IF compareIssues(sorted[Len(sorted)], x) < 0
         THEN Append(sorted, x)
         ELSE Append(insertSorted_dropTies(SubSeq(sorted, 1, Len(sorted) - 1), x),
                     sorted[Len(sorted)])

\* Array.prototype.sort is stable: x goes behind the last element that does
\* not compare greater than it
RECURSIVE insertSorted(_, _)
insertSorted(sorted, x) ==
    IF sorted = <<>> THEN <<x>>
    ELSE IF compareIssues(sorted[Len(sorted)], x) <= 0
         THEN Append(sorted, x)
         ELSE Append(insertSorted(SubSeq(sorted, 1, Len(sorted) - 1), x),
                     sorted[Len(sorted)])

RECURSIVE sort(_)
sort(list) ==
    IF list = <<>> THEN <<>>
    ELSE insertSorted(sort(SubSeq(list, 1, Len(list) - 1)), list[Len(list)])

\* line 137: the row of one issue, cell by cell (BQ is the backquote)
TableRow(issue) ==
    [ageGender |-> formatAgeGender(issue.age, issue.gender),
     event |-> issue.event,
     course |-> issue.course,
     standard |-> issue.standard,
     value |-> <<"BQ">> \o issue.value \o <<"BQ">>,
     issueDesc |-> issue.issue]

\* line 137: the text of a row; the fixed pieces of the template are one
\* element each, the cells keep their code units
rowText(row) ==
    <<"| ">> \o row.ageGender \o <<" | ">> \o row.event
        \o <<" | ", row.course, " | ", row.standard, " | ">> \o row.value
        \o <<" | ", row.issueDesc, " |">>

\* lines 126-127: the two header lines, one element each
TableHeader ==
    <<"| Age/Gender | Event      | Course | Standard | Value       | Issue              |",
      "| ---------- | ---------- | ------ | -------- | ----------- | ------------------- |">>

\* line 91
NoInconsistencies == <<"*(No inconsistencies found in current data)*">>

NL == "\n"

\* lines.join('\n')
RECURSIVE join(_)
join(lines) ==
    IF lines = <<>> THEN <<>>
    ELSE IF Len(lines) = 1 THEN lines[1]
    ELSE lines[1] \o <<NL>> \o join(Tail(lines))

\* lines 125-138: the array lines, a header line or a row per element
linesOf(sorted) ==
    <<<<TableHeader[1]>>, <<TableHeader[2]>>>>
        \o [i \in 1..Len(sorted) |-> rowText(TableRow(sorted[i]))]

\* generateTable without its early return for the empty list
generateTable_headerAlways(list) == join(linesOf(sort(list)))

generateTable(list) ==
    IF Len(list) = 0 THEN NoInconsistencies
    ELSE join(linesOf(sort(list)))

-----------------------------------------------------------------------------
(* Input documents *)

MaxMinuteDigits == 1
MaxSecondDigits == 3
MaxCentiDigits == 2

GenDigits == {"0", "6"}
Runs(lo, hi) == UNION {[1..n -> GenDigits] : n \in lo..hi}

\* digit runs joined by an optional ':' and an optional '.'
Bodies ==
    {m \o c1 \o sec \o c2 \o cs :
        m \in Runs(0, MaxMinuteDigits), c1 \in {<<>>, <<":">>},
        sec \in Runs(1, MaxSecondDigits), c2 \in {<<>>, <<".">>},
        cs \in Runs(1, MaxCentiDigits)}

\* each body bare, marked, marked twice, and with the marker in front
GenTexts ==
    {<<>>, WARNING_EMOJI}
    \cup Bodies
    \cup {b \o WARNING_EMOJI : b \in Bodies}
    \cup {b \o WARNING_EMOJI \o WARNING_EMOJI : b \in Bodies}
    \cup {WARNING_EMOJI \o b : b \in Bodies}

\* the time texts of the test fixtures (tests/test-validation.sh) and some
\* marked or malformed variants of them
FixtureTexts ==
    {<<"3","0",".","0","0">>, <<"3","1",".","0","0">>, <<"3","2",".","0","0">>,
     <<"1",":","9","6",".","0","0">>, <<"1",":","1","0",".","0","0">>,
     <<"1",":","1","2",".","0","0">>,
     <<"3","1",".","0","0">> \o WARNING_EMOJI,
     <<"1",":","9","6",".","0","0">> \o WARNING_EMOJI,
     <<"3","1",".","0">>,
     <<>>}

FixtureValues == {Null} \cup {Str(t) : t \in FixtureTexts}

AllNull == CourseTimes(Null, Null, Null)

\* the second course of the event: missing from the event, or out of order
OtherCourses ==
    {MissingCourse,
     CourseTimes(Str(<<"3","5",".","0","0">>), Str(<<"3","1",".","0","0">>),
                 Str(<<"3","2",".","0","0">>))}

\* documents with one generated text, the other leaves null
LeafDocs ==
    {[c \in Courses |->
        IF c = "SCY" THEN CourseTimes(Str(t), Null, Null) ELSE AllNull] :
     t \in GenTexts}

\* documents with three fixture values in the first course
TripleDocs ==
    {[c \in Courses |->
        IF c = "SCY" THEN CourseTimes(v[1], v[2], v[3])
        ELSE IF c = "SCM" THEN o ELSE AllNull] :
     v \in FixtureValues \X FixtureValues \X FixtureValues, o \in OtherCourses}

START_MARKER == "<!-- AUTO-GENERATED-INCONSISTENCIES-TABLE:START -->"
END_MARKER == "<!-- AUTO-GENERATED-INCONSISTENCIES-TABLE:END -->"

\* the README before any run: the marker pair, each marker on a line of its
\* own, around an older table, between the paragraphs kept by hand
ReadmeWithMarkers ==
    <<"## Data Inconsistencies", NL, START_MARKER, NL, "old table", NL,
      END_MARKER, NL, "### Issue Key">>

ReadmeWithoutMarkers ==
    <<"## Data Inconsistencies", NL, "old table", NL, "### Issue Key">>

\* check-for-new-pdf.js has not run
NoStored == [file |-> "unread", title |-> <<>>, sourceUrl |-> <<>>]
NoPage == [fetch |-> "none", anchors |-> <<>>]
NotChecked == [ran |-> FALSE, changed |-> FALSE, type |-> "null", details |-> <<>>]

\* nothing of validate-all.sh has happened
SuiteIdle ==
    /\ pc = "idle"
    /\ steps = <<>>
    /\ FORMAT_ISSUES = <<>>
    /\ PROGRESSION_ISSUES = <<>>
    /\ COMBINED_ISSUES = <<>>
    /\ readme = ReadmeWithMarkers
    /\ sortedIssues = <<>>
    /\ newTable = <<>>
    /\ readmeContent = <<>>

\* no script has run on the file
NothingRun ==
    /\ issues = <<>>
    /\ last = "none"
    /\ pre = doc
    /\ prior = "none"
    /\ preIssues = <<>>
    /\ exit = {}
    /\ written = FALSE
    /\ stored = NoStored
    /\ page = NoPage
    /\ pdfResult = NotChecked

Init ==
    /\ doc \in LeafDocs \cup TripleDocs
    /\ kind = "document"
    /\ NothingRun
    /\ SuiteIdle

-----------------------------------------------------------------------------
(* One run of a validator script: read the file, process, write it back *)

FileKinds == {"document", "noAgeGroups", "notJSON", "missing"}

\* lines 179-208: where the try block of main ends for a file of this kind
mainOutcome(fileKind) ==
    IF fileKind = "missing" THEN "readFileSync throws"
    ELSE IF fileKind = "notJSON" THEN "JSON.parse throws"
    ELSE IF fileKind = "noAgeGroups" THEN "processTimeStandards throws"
    ELSE "processed"

\* the catch block without its process.exit(1): the status is 0 at the end
exitStatus_zero(outcome) == 0

\* process.exit(0) at the end of the try block, process.exit(1) in the catch
exitStatus(outcome) == IF outcome = "processed" THEN 0 ELSE 1

\* writeFileSync moved in front of processTimeStandards: the parsed file is
\* written back before the ageGroups test throws
writesBack_early(outcome) ==
    outcome = "processed" \/ outcome = "processTimeStandards throws"

\* writeFileSync comes after processTimeStandards in the try block
writesBack(outcome) == outcome = "processed"

\* the issue list of a run: none when main ended in the catch block
issuesOf(outcome, result) == IF outcome = "processed" THEN result.issues ELSE <<>>

\* the file after the run
dataOf(outcome, result, data) == IF writesBack(outcome) THEN result.data ELSE data

\* the effect of a run with this outcome and this result of processTimeStandards
RunResult(outcome, result, validator) ==
    /\ doc' = dataOf(outcome, result, doc)
    /\ issues' = issuesOf(outcome, result)
    /\ exit' = {exitStatus(outcome)}
    /\ written' = writesBack(outcome)
    /\ last' = validator
    /\ pre' = doc
    /\ prior' = last
    /\ preIssues' = issues
    /\ kind' = kind
    /\ UNCHANGED pdfVars

\* what processTimeStandards returns; a file that is no document is not processed
processedBy(validator) ==
    IF kind # "document" THEN [data |-> doc, issues |-> <<>>]
    ELSE IF validator = "format" THEN processTimeStandardsFormat(doc)
    ELSE processTimeStandardsProgression(doc)

\* main of validate-time-format.js: the processed document replaces the file
FormatPass ==
    /\ pc = "idle"
    /\ RunResult(mainOutcome(kind), processedBy("format"), "format")
    /\ UNCHANGED suiteVars

\* main of validate-time-progression.js
ProgressionPass ==
    /\ pc = "idle"
    /\ RunResult(mainOutcome(kind), processedBy("progression"), "progression")
    /\ UNCHANGED suiteVars

Next == FormatPass \/ ProgressionPass

Spec == Init /\ [][Next]_vars

-----------------------------------------------------------------------------
(* The README updater: main of update-readme-inconsistencies.js *)

\* where set -e sends the script behind a command with this exit status
nextStep(status, next) == IF status = 0 THEN next ELSE "failed"

\* line 150: where START, a newline and the first later newline before END
\* begin; the group between them is taken as short as possible
markerStarts(text) ==
    {i \in 1..Len(text) :
        /\ text[i] = START_MARKER
        /\ i + 3 <= Len(text)
        /\ text[i + 1] = NL
        /\ \E j \in (i + 2)..(Len(text) - 1) : text[j] = NL /\ text[j + 1] = END_MARKER}

lazyEnd(text, i) ==
    CHOOSE j \in (i + 2)..(Len(text) - 1) :
        /\ text[j] = NL /\ text[j + 1] = END_MARKER
        /\ \A k \in (i + 2)..(j - 1) : ~(text[k] = NL /\ text[k + 1] = END_MARKER)

firstOf(starts) == CHOOSE i \in starts : \A k \in starts : i <= k

\* the match of the text at position i: it runs from the START marker to the
\* END marker, the group is what lies between the two newlines
matchAt(text, i, j) ==
    [ok |-> TRUE, from |-> i, to |-> j + 1, g1 |-> SubSeq(text, i + 2, j - 1)]

NoMarkers == [ok |-> FALSE, from |-> 0, to |-> 0, g1 |-> <<>>]

\* readmeContent.match(markerRegex): the leftmost match, or none
markerRegex(text) ==
    IF markerStarts(text) = {} THEN NoMarkers
    ELSE matchAt(text, firstOf(markerStarts(text)),
                 lazyEnd(text, firstOf(markerStarts(text))))

\* what String.prototype.replace puts for a dollar sign at position i of the
\* replacement string, and how many code units of the string it stands for:
\* $$ a dollar sign, $& the match, $BQ the text before the match, $' the text
\* behind it, $1 and $01 the group (the regex has one), anything else itself
dollar(template, i, text, m) ==
    IF i = Len(template) THEN [out |-> <<"$">>, skip |-> 1]
    ELSE IF template[i + 1] = "$" THEN [out |-> <<"$">>, skip |-> 2]
    ELSE IF template[i + 1] = "&"
         THEN [out |-> SubSeq(text, m.from, m.to), skip |-> 2]
    ELSE IF template[i + 1] = "BQ"
         THEN [out |-> SubSeq(text, 1, m.from - 1), skip |-> 2]
    ELSE IF template[i + 1] = "'"
         THEN [out |-> SubSeq(text, m.to + 1, Len(text)), skip |-> 2]
    ELSE IF template[i + 1] = "1" THEN [out |-> m.g1, skip |-> 2]
    ELSE IF template[i + 1] = "0" /\ i + 2 <= Len(template) /\ template[i + 2] = "1"
         THEN [out |-> m.g1, skip |-> 3]
    ELSE [out |-> <<"$">>, skip |-> 1]

\* the replacement string with its dollar patterns expanded: what stands in
\* front of the first dollar sign is copied, the pattern at the dollar sign is
\* replaced, and the rest of the string is treated the same way
RECURSIVE substitute(_, _, _)
substituteFrom(template, i, text, m, d) ==
    SubSeq(template, 1, i - 1) \o d.out
        \o substitute(SubSeq(template, i + d.skip, Len(template)), text, m)

substitute(template, text, m) ==
    IF ~includes(template, <<"$">>) THEN template
    ELSE substituteFrom(template, IndexOf(template, <<"$">>), text, m,
                        dollar(template, IndexOf(template, <<"$">>), text, m))

\* line 169: the replacement string
replacement(table) == <<START_MARKER, NL>> \o table \o <<NL, END_MARKER>>

\* lines 167-170: readmeContent.replace(markerRegex, replacement)
replace(text, m, template) ==
    SubSeq(text, 1, m.from - 1) \o substitute(template, text, m)
        \o SubSeq(text, m.to + 1, Len(text))

\* updateReadme throws when the regex finds no marker pair and the file is
\* not written; otherwise the new text of the file
updateReadme(content, list) ==
    IF ~markerRegex(content).ok THEN content
    ELSE replace(content, markerRegex(content), replacement(generateTable(list)))

\* main: 0 at the end of the try block, 1 when updateReadme throws
updaterStatus(content) == IF markerRegex(content).ok THEN 0 ELSE 1

\* the run of the updater that validate-all.sh ends with
UpdateReadme ==
    /\ pc = "render"
    /\ readmeContent' = readme
    /\ readme' = updateReadme(readme, COMBINED_ISSUES)
    /\ sortedIssues' =
          IF updaterStatus(readme) = 0 THEN sort(COMBINED_ISSUES) ELSE sortedIssues
    /\ newTable' =
          IF updaterStatus(readme) = 0 THEN generateTable(COMBINED_ISSUES)
          ELSE newTable
    /\ exit' = {updaterStatus(readme)}
    /\ written' = (updaterStatus(readme) = 0)
    /\ pc' = nextStep(updaterStatus(readme), "done")
    /\ steps' = Append(steps, [step |-> "render", exit |-> updaterStatus(readme)])
    /\ UNCHANGED <<doc, issues, last, pre, prior, preIssues, kind,
                   FORMAT_ISSUES, PROGRESSION_ISSUES, COMBINED_ISSUES>>
    /\ UNCHANGED pdfVars

\* issue lists of up to MaxIssues issues
MaxIssues == 3

IssueAt(age, gender, event, course, standard, value, text) ==
    [age |-> age, gender |-> gender, event |-> event, course |-> course,
     standard |-> standard, value |-> value, issue |-> text]

\* age labels of the time standards and of the sorting tests
TableAges ==
    {<<"9">>, <<"1", "0">>, <<"1", "1">>, <<"1", "2">>,
     <<"1", "1", "-", "1", "2">>, <<"1", "4">>, <<"1", "3", "-", "1", "4">>,
     <<"8", " ", "&", " ", "U", "n", "d", "e", "r">>}

TableEvents ==
    {<<"5", "0", " ", "F", "r", "e", "e">>,
     <<"1", "0", "0", " ", "F", "r", "e", "e">>}

MarkedValue == <<"1", ":", "9", "6", ".", "0", "0">> \o WARNING_EMOJI

\* issues that differ in age and gender
AgeIssues ==
    {IssueAt(a, g, EventName, "SCY", "A", MarkedValue, "Invalid format") :
        a \in TableAges, g \in {"Girls", "Boys"}}

\* issues of one age that differ in gender, event and course
EventIssues ==
    {IssueAt(Age, g, e, c, "B", MarkedValue, "Invalid progression") :
        g \in {"Girls", "Boys"}, e \in TableEvents, c \in Courses}

\* issues of one age, gender and event that differ in course and standard,
\* and the two issues the validators emit for one leaf
LeafIssues ==
    {IssueAt(Age, Gender, EventName, c, st, MarkedValue, "Invalid format") :
        c \in Courses, st \in Standards}
    \cup {IssueAt(Age, Gender, EventName, "SCY", "B", MarkedValue,
                  "Invalid progression")}

ListsOf(S) == UNION {[1..n -> S] : n \in 0..MaxIssues}

\* the ages of the sorting test, 8 to 15, in two input orders
SortingTestAges ==
    <<<<"8">>, <<"9">>, <<"1", "0">>, <<"1", "0">>, <<"1", "1">>, <<"1", "2">>,
      <<"1", "1", "-", "1", "2">>, <<"1", "3">>, <<"1", "4">>, <<"1", "4">>,
      <<"1", "4">>, <<"1", "3", "-", "1", "4">>, <<"1", "5">>>>

SortingTestIssue(i) ==
    IssueAt(SortingTestAges[i], IF i \in {4, 10} THEN "Boys" ELSE "Girls",
            EventName, IF i = 11 THEN "LCM" ELSE "SCY", "A", MarkedValue,
            "Invalid format")

SortingTestLists ==
    {[i \in 1..13 |-> SortingTestIssue(14 - i)],
     [i \in 1..13 |-> SortingTestIssue(((i * 5) % 13) + 1)]}

IssueLists ==
    ListsOf(AgeIssues) \cup ListsOf(EventIssues) \cup ListsOf(LeafIssues)
    \cup SortingTestLists

\* the updater called with any issue list, on a README with or without markers
InitTable ==
    /\ doc = [c \in Courses |-> AllNull]
    /\ kind = "document"
    /\ NothingRun
    /\ pc = "render"
    /\ steps = <<>>
    /\ FORMAT_ISSUES = <<>>
    /\ PROGRESSION_ISSUES = <<>>
    /\ COMBINED_ISSUES \in IssueLists
    /\ readme \in {ReadmeWithMarkers, ReadmeWithoutMarkers}
    /\ sortedIssues = <<>>
    /\ newTable = <<>>
    /\ readmeContent = <<>>

SpecTable == InitTable /\ [][UpdateReadme]_vars

\* READMEs as a hand may leave them: the pair around several lines, around
\* an empty line, around nothing, in the wrong order, twice, half of it, and
\* with nothing around the pair
ReadmeTexts ==
    {ReadmeWithMarkers,
     ReadmeWithoutMarkers,
     <<"## Data Inconsistencies", NL, START_MARKER, NL, "old header", NL,
       "old row", NL, END_MARKER, NL, "### Issue Key">>,
     <<"## Data Inconsistencies", NL, START_MARKER, NL, NL, END_MARKER, NL,
       "### Issue Key">>,
     <<"## Data Inconsistencies", NL, START_MARKER, NL, END_MARKER, NL,
       "### Issue Key">>,
     <<"## Data Inconsistencies", NL, END_MARKER, NL, "old table", NL,
       START_MARKER, NL, "### Issue Key">>,
     <<START_MARKER, NL, "old table", NL, END_MARKER, NL, "### Issue Key", NL,
       START_MARKER, NL, "second table", NL, END_MARKER>>,
     <<"## Data Inconsistencies", NL, START_MARKER, NL, "old table", NL,
       "### Issue Key">>,
     <<START_MARKER, NL, "old table", NL, END_MARKER>>}

\* values as any JSON string may be: a flagged time, and texts with a dollar
\* sign in front of a dollar sign, an ampersand, a quote, a digit, the marker
\* or nothing
DollarValues ==
    {MarkedValue,
     <<"$", "$">> \o WARNING_EMOJI,
     <<"$", "&">> \o WARNING_EMOJI,
     <<"$", "'">> \o WARNING_EMOJI,
     <<"$", "1">> \o WARNING_EMOJI,
     <<"$", "0", "1">> \o WARNING_EMOJI,
     <<"9", "$">> \o WARNING_EMOJI,
     <<"9", "$">>}

DollarIssues ==
    {IssueAt(Age, Gender, EventName, "SCY", "A", v, "Invalid format") :
        v \in DollarValues}

\* the updater called with issues of any value on any of these READMEs
InitReadme ==
    /\ doc = [c \in Courses |-> AllNull]
    /\ kind = "document"
    /\ NothingRun
    /\ pc = "render"
    /\ steps = <<>>
    /\ FORMAT_ISSUES = <<>>
    /\ PROGRESSION_ISSUES = <<>>
    /\ COMBINED_ISSUES \in ListsOf(DollarIssues)
    /\ readme \in ReadmeTexts
    /\ sortedIssues = <<>>
    /\ newTable = <<>>
    /\ readmeContent = <<>>

SpecReadme == InitReadme /\ [][UpdateReadme]_vars

\* the runs of the validators on any file, documents and unusable files alike
InitFiles ==
    /\ doc \in TripleDocs
    /\ kind \in FileKinds
    /\ NothingRun
    /\ SuiteIdle

SpecFiles == InitFiles /\ [][Next]_vars

-----------------------------------------------------------------------------
(* validate-all.sh: the four scripts in sequence, under set -e *)

\* validate-json-structure.js finds an error: the file is no document with an
\* ageGroups array, or a course of the event is missing
structureErrors(fileKind, data) ==
    fileKind # "document" \/ \E c \in Courses : ~data[c].present

\* a shell variable holding JSON text is the empty sequence when the text is
\* empty, and the sequence of the one value the text denotes otherwise
EMPTY_ARRAY == <<<<>>>>

\* the text grep and sed leave of a validator's output: the JSON of the
\* issues behind "JSON_ISSUES=", which main prints for a non-empty list only.
\* Without such a line grep selects nothing and the text is empty: the
\* pipeline has the status of sed, so the echo behind || does not run
issuesText(list) == IF Len(list) > 0 THEN <<list>> ELSE <<>>

\* the merge with the two lists exchanged
mergeIssues_reversed(format, progression) == progression[1] \o format[1]

\* the merge: [...format, ...progression] on the two texts read as arrays
mergeIssues(format, progression) == format[1] \o progression[1]

\* node -e fails on "const format = ;" when a text is empty
mergeStatus(format, progression) ==
    IF format = <<>> \/ progression = <<>> THEN 1 ELSE 0

\* step 1: the structure is validated, the file is not written
ValidateStructure ==
    /\ pc = "structure"
    /\ exit' = {IF structureErrors(kind, doc) THEN 1 ELSE 0}
    /\ written' = FALSE
    /\ pc' = nextStep(IF structureErrors(kind, doc) THEN 1 ELSE 0, "format")
    /\ steps' = Append(steps, [step |-> "structure",
                               exit |-> IF structureErrors(kind, doc) THEN 1 ELSE 0])
    /\ UNCHANGED <<doc, issues, last, pre, prior, preIssues, kind,
                   FORMAT_ISSUES, PROGRESSION_ISSUES, COMBINED_ISSUES, readme,
                   sortedIssues, newTable, readmeContent>>
    /\ UNCHANGED pdfVars

\* step 2: validate-time-format.js, its issues kept in FORMAT_ISSUES
StepFormat ==
    /\ pc = "format"
    /\ RunResult(mainOutcome(kind), processedBy("format"), "format")
    /\ pc' = nextStep(exitStatus(mainOutcome(kind)), "progression")
    /\ steps' = Append(steps, [step |-> "format",
                               exit |-> exitStatus(mainOutcome(kind))])
    /\ FORMAT_ISSUES' = issuesText(issues')
    /\ UNCHANGED <<PROGRESSION_ISSUES, COMBINED_ISSUES, readme, sortedIssues,
                   newTable, readmeContent>>

\* step 3: validate-time-progression.js, its issues kept in PROGRESSION_ISSUES
StepProgression ==
    /\ pc = "progression"
    /\ RunResult(mainOutcome(kind), processedBy("progression"), "progression")
    /\ pc' = nextStep(exitStatus(mainOutcome(kind)), "merge")
    /\ steps' = Append(steps, [step |-> "progression",
                               exit |-> exitStatus(mainOutcome(kind))])
    /\ PROGRESSION_ISSUES' = issuesText(issues')
    /\ UNCHANGED <<FORMAT_ISSUES, COMBINED_ISSUES, readme, sortedIssues,
                   newTable, readmeContent>>

\* step 4, first command: the two issue lists are merged
MergeIssues ==
    /\ pc = "merge"
    /\ exit' = {mergeStatus(FORMAT_ISSUES, PROGRESSION_ISSUES)}
    /\ written' = FALSE
    /\ pc' = nextStep(mergeStatus(FORMAT_ISSUES, PROGRESSION_ISSUES), "render")
    /\ steps' = Append(steps, [step |-> "merge",
                               exit |-> mergeStatus(FORMAT_ISSUES, PROGRESSION_ISSUES)])
    /\ COMBINED_ISSUES' =
          IF mergeStatus(FORMAT_ISSUES, PROGRESSION_ISSUES) = 0
          THEN mergeIssues(FORMAT_ISSUES, PROGRESSION_ISSUES) ELSE COMBINED_ISSUES
    /\ UNCHANGED <<doc, issues, last, pre, prior, preIssues, kind,
                   FORMAT_ISSUES, PROGRESSION_ISSUES, readme, sortedIssues,
                   newTable, readmeContent>>
    /\ UNCHANGED pdfVars

NextAll ==
    \/ ValidateStructure
    \/ StepFormat
    \/ StepProgression
    \/ MergeIssues
    \/ UpdateReadme

\* documents whose second course is the valid one of test-valid.json
ValidCourseDocs ==
    {[c \in Courses |->
        IF c = "SCY" THEN CourseTimes(v[1], v[2], v[3])
        ELSE IF c = "SCM"
             THEN CourseTimes(Str(<<"3","3",".","0","0">>), Str(<<"3","4",".","0","0">>),
                              Str(<<"3","5",".","0","0">>))
             ELSE AllNull] :
     v \in FixtureValues \X FixtureValues \X FixtureValues}

\* validate-all.sh is started on any file and any README
InitAll ==
    /\ doc \in TripleDocs \cup ValidCourseDocs
    /\ kind \in FileKinds
    /\ NothingRun
    /\ pc = "structure"
    /\ steps = <<>>
    /\ FORMAT_ISSUES = <<>>
    /\ PROGRESSION_ISSUES = <<>>
    /\ COMBINED_ISSUES = <<>>
    /\ readme \in {ReadmeWithMarkers, ReadmeWithoutMarkers}
    /\ sortedIssues = <<>>
    /\ newTable = <<>>
    /\ readmeContent = <<>>

SpecAll == InitAll /\ [][NextAll]_vars

-----------------------------------------------------------------------------
(* check-for-new-pdf.js: is there a newer time standards PDF on the page *)

\* a number or null; null counts as 0 in a comparison with > and is equal
\* to nothing but null
Num(n) == [isNull |-> FALSE, n |-> n]
NullNum == [isNull |-> TRUE, n |-> 0]
ToNumber(v) == IF v.isNull THEN 0 ELSE v.n
greater(a, b) == ToNumber(a) > ToNumber(b)

\* /(\d{4})-(\d{4})/: where four digits, a hyphen and four digits stand
yearRangeAt(str) ==
    {i \in 1..(Len(str) - 8) :
        /\ IsDigits(SubSeq(str, i, i + 3))
        /\ str[i + 4] = "-"
        /\ IsDigits(SubSeq(str, i + 5, i + 8))}

NoYearRange == [yearRange |-> <<>>, startYear |-> NullNum, endYear |-> NullNum]

yearsAt(str, i) ==
    [yearRange |-> SubSeq(str, i, i + 8),
     startYear |-> Num(parseInt(SubSeq(str, i, i + 3))),
     endYear |-> Num(parseInt(SubSeq(str, i + 5, i + 8)))]

\* lines 60-69 and 45-51: the first year range of the text, or null
parseYearRange(yearStr) ==
    IF yearRangeAt(yearStr) = {} THEN NoYearRange
    ELSE yearsAt(yearStr, firstOf(yearRangeAt(yearStr)))

\* lines 38-58: readFileSync, JSON.parse or json.title.match throw
loadThrows(file) == file.file # "ok"

currentDataOf(file, years) ==
    [title |-> file.title, yearRange |-> years.yearRange,
     startYear |-> years.startYear, endYear |-> years.endYear,
     sourceUrl |-> file.sourceUrl]

loadCurrentData(file) == currentDataOf(file, parseYearRange(file.title))

\* the comparison of the start years alone
isNewerYear_startOnly(currentStart, currentEnd, newStart, newEnd) ==
    greater(newStart, currentStart)

\* lines 71-76
isNewerYear(currentStart, currentEnd, newStart, newEnd) ==
    \/ greater(newStart, currentStart)
    \/ newStart = currentStart /\ greater(newEnd, currentEnd)

ORIGIN == "https://www.oregonswimming.org"

\* url.startsWith('http'): the first element of an absolute URL is its origin
HttpOrigins == {ORIGIN, "https://cdn.oregonswimming.org"}

\* lines 78-82
normalizeUrl(url) ==
    IF url # <<>> /\ url[1] \in HttpOrigins THEN url ELSE <<ORIGIN>> \o url

\* the words the three tests of lines 105-107 look for, in either case
OsiWords == {"OSI", "osi"}
TimeWords == {"Time", "time"}
StandardsWords == {"Standards", "standards"}
ChampionshipWords == {"Championship", "Championships", "championships"}

\* /a.*b.*c/i on a text of words
inOrder(str, A, B, C) ==
    \E i, j, k \in 1..Len(str) :
        i < j /\ j < k /\ str[i] \in A /\ str[j] \in B /\ str[k] \in C

isOSI(combined) ==
    \/ inOrder(combined, OsiWords, TimeWords, StandardsWords)
    \/ inOrder(combined, TimeWords, StandardsWords, OsiWords)

isNotChampionships(combined) ==
    ~\E i \in 1..Len(combined) : combined[i] \in ChampionshipWords

hasYear(combined) == yearRangeAt(combined) # {}

\* line 102
combinedOf(anchor) == anchor.text \o <<" ">> \o anchor.href

\* line 110
keeps(anchor) ==
    /\ isOSI(combinedOf(anchor))
    /\ isNotChampionships(combinedOf(anchor))
    /\ hasYear(combinedOf(anchor))

\* lines 113-117
linkOf(anchor, yearInfo) ==
    [text |-> anchor.text, href |-> normalizeUrl(anchor.href),
     yearRange |-> yearInfo.yearRange, startYear |-> yearInfo.startYear,
     endYear |-> yearInfo.endYear]

kept(anchors) == SelectSeq(anchors, keeps)

\* lines 95-120: the OSI time standards links of the page, in page order
osiLinksOf(anchors) ==
    [k \in 1..Len(anchors) |->
        linkOf(anchors[k], parseYearRange(combinedOf(anchors[k])))]

osiLinks(html) == osiLinksOf(kept(html))

\* lines 130-146: what one turn of the loop finds for a link
changeOf(link, currentData) ==
    IF isNewerYear(currentData.startYear, currentData.endYear,
                   link.startYear, link.endYear)
    THEN "NEWER_YEAR"
    ELSE IF /\ link.startYear = currentData.startYear
            /\ link.endYear = currentData.endYear
            /\ link.href # currentData.sourceUrl
         THEN "URL_CHANGED"
    ELSE "null"

changesIn(links, currentData) ==
    {k \in 1..Len(links) : changeOf(links[k], currentData) # "null"}

\* the loop breaks at the first link with a change
resultOf(links, currentData, changes) ==
    IF changes = {}
    THEN [ran |-> TRUE, changed |-> FALSE, type |-> "null", details |-> <<>>]
    ELSE [ran |-> TRUE, changed |-> TRUE,
          type |-> changeOf(links[firstOf(changes)], currentData),
          details |-> <<links[firstOf(changes)]>>]

\* lines 84-190
checkForNewPDF(html, currentData) ==
    resultOf(osiLinks(html), currentData, changesIn(osiLinks(html), currentData))

\* lines 192-219: 2 from the catch block, else 0 for a change and 1 for none
mainThrows(file, fetched) == loadThrows(file) \/ fetched.fetch # "ok"

mainStatus(file, fetched, found) ==
    IF mainThrows(file, fetched) THEN 2 ELSE IF found.changed THEN 0 ELSE 1

mainResult(file, fetched) ==
    IF mainThrows(file, fetched) THEN [NotChecked EXCEPT !.ran = TRUE]
    ELSE checkForNewPDF(fetched.anchors, loadCurrentData(file))

\* main of check-for-new-pdf.js
CheckForNewPDF ==
    /\ pc = "idle"
    /\ stored.file # "unread"
    /\ ~pdfResult.ran
    /\ pdfResult' = mainResult(stored, page)
    /\ exit' = {mainStatus(stored, page, mainResult(stored, page))}
    /\ UNCHANGED <<doc, issues, last, pre, prior, preIssues, kind, written,
                   stored, page>>
    /\ UNCHANGED suiteVars

MaxLinks == 2

Range2425 == <<"2", "0", "2", "4", "-", "2", "0", "2", "5">>
Range2324 == <<"2", "0", "2", "3", "-", "2", "0", "2", "4">>
Range2526 == <<"2", "0", "2", "5", "-", "2", "0", "2", "6">>
Range2426 == <<"2", "0", "2", "4", "-", "2", "0", "2", "6">>

OsiTitle(range) == range \o <<" ", "OSI", " ", "Time", " ", "Standards">>

Anchor(text, href) == [text |-> text, href |-> href]

\* the anchors of the page: the stored PDF under a relative and an absolute
\* URL, the same year under another URL, newer and older years, the year in
\* the URL only, the championship standards, and links without a year or
\* without the words
Anchors ==
    {Anchor(OsiTitle(Range2425), <<"/files/", "a.pdf">>),
     Anchor(OsiTitle(Range2425), <<ORIGIN, "/files/", "a.pdf">>),
     Anchor(OsiTitle(Range2425), <<"/files/", "b.pdf">>),
     Anchor(OsiTitle(Range2526), <<"/files/", "c.pdf">>),
     Anchor(OsiTitle(Range2426), <<"/files/", "d.pdf">>),
     Anchor(OsiTitle(Range2324), <<"/files/", "e.pdf">>),
     Anchor(<<"Time", " ", "Standards">>,
            <<"/files/">> \o Range2526 \o <<"-", "osi", ".pdf">>),
     Anchor(Range2526 \o <<" ", "OSI", " ", "Championships", " ", "Time", " ",
                           "Standards">>, <<"/files/", "f.pdf">>),
     Anchor(<<"OSI", " ", "Time", " ", "Standards">>, <<"/files/", "g.pdf">>),
     Anchor(<<"Meet", " ", "Schedule", " ">> \o Range2526, <<"/files/", "h.pdf">>)}

Pages ==
    {[fetch |-> "ok", anchors |-> a] :
        a \in UNION {[1..n -> Anchors] : n \in 0..MaxLinks}}
    \cup {[fetch |-> "error", anchors |-> <<>>]}

StoredFile(title, sourceUrl) ==
    [file |-> "ok", title |-> title, sourceUrl |-> sourceUrl]

\* swim_time_standards.json: the fixtures of the test (current, old, URL
\* changed), a title without a year range, a file without title and no file
StoredFiles ==
    {StoredFile(OsiTitle(Range2425), <<ORIGIN, "/files/", "a.pdf">>),
     StoredFile(OsiTitle(Range2324), <<ORIGIN, "/files/", "e.pdf">>),
     StoredFile(OsiTitle(Range2425), <<ORIGIN, "/files/", "old.pdf">>),
     StoredFile(OsiTitle(Range2526), <<ORIGIN, "/files/", "c.pdf">>),
     StoredFile(<<"OSI", " ", "Time", " ", "Standards">>,
                <<ORIGIN, "/files/", "a.pdf">>),
     [file |-> "noTitle", title |-> <<>>, sourceUrl |-> <<>>],
     [file |-> "missing", title |-> <<>>, sourceUrl |-> <<>>]}

InitPdf ==
    /\ doc = [c \in Courses |-> AllNull]
    /\ kind = "document"
    /\ issues = <<>>
    /\ last = "none"
    /\ pre = doc
    /\ prior = "none"
    /\ preIssues = <<>>
    /\ exit = {}
    /\ written = FALSE
    /\ SuiteIdle
    /\ stored \in StoredFiles
    /\ page \in Pages
    /\ pdfResult = NotChecked

SpecPdf == InitPdf /\ [][CheckForNewPDF]_vars

-----------------------------------------------------------------------------
(* The later validate-all.sh: six steps, with update-readme-data-source.js *)

\* lines 37-39 and 49-51: an empty text is replaced by the text of the empty
\* array
orEmptyArray(text) == IF text = <<>> THEN EMPTY_ARRAY ELSE text

CURRENT_START == "<!-- AUTO-GENERATED-CURRENT-STANDARDS:START -->"
CURRENT_END == "<!-- AUTO-GENERATED-CURRENT-STANDARDS:END -->"

\* update-readme-data-source.js line 39: where START, a newline and the
\* first later newline before END begin
currentStarts(text) ==
    {i \in 1..Len(text) :
        /\ text[i] = CURRENT_START
        /\ i + 3 <= Len(text)
        /\ text[i + 1] = NL
        /\ \E j \in (i + 2)..(Len(text) - 1) : text[j] = NL /\ text[j + 1] = CURRENT_END}

currentEnd(text, i) ==
    CHOOSE j \in (i + 2)..(Len(text) - 1) :
        /\ text[j] = NL /\ text[j + 1] = CURRENT_END
        /\ \A k \in (i + 2)..(j - 1) : ~(text[k] = NL /\ text[k + 1] = CURRENT_END)

\* readmeContent.match(markerRegex) of the data source updater
currentRegex(text) ==
    IF currentStarts(text) = {} THEN NoMarkers
    ELSE matchAt(text, firstOf(currentStarts(text)),
                 currentEnd(text, firstOf(currentStarts(text))))

\* the line with the title, a link when there is a source URL
createCurrentStandardsLine(title, sourceUrl) ==
    IF sourceUrl # <<>>
    THEN <<"**Current standards:** ", "[">> \o title \o <<"](">> \o sourceUrl \o <<")">>
    ELSE <<"**Current standards:** ">> \o title

\* the README the data source updater leaves: the text between its markers
\* replaced, or the file as it was when the markers are not found
updateReadmeDataSource(content, title, sourceUrl) ==
    IF ~currentRegex(content).ok THEN content
    ELSE replace(content, currentRegex(content),
                 <<CURRENT_START, NL>> \o createCurrentStandardsLine(title, sourceUrl)
                     \o <<NL, CURRENT_END>>)

\* main of the data source updater: 1 without a title, 1 when the markers are
\* not found, 0 at the end of the try block
dataSourceStatus(content, title) ==
    IF title = <<>> THEN 1 ELSE IF currentRegex(content).ok THEN 0 ELSE 1

\* step 2 with the fallback
StepFormatLater ==
    /\ pc = "format"
    /\ RunResult(mainOutcome(kind), processedBy("format"), "format")
    /\ pc' = nextStep(exitStatus(mainOutcome(kind)), "progression")
    /\ steps' = Append(steps, [step |-> "format",
                               exit |-> exitStatus(mainOutcome(kind))])
    /\ FORMAT_ISSUES' = orEmptyArray(issuesText(issues'))
    /\ UNCHANGED <<PROGRESSION_ISSUES, COMBINED_ISSUES, readme, sortedIssues,
                   newTable, readmeContent>>

\* step 3 with the fallback
StepProgressionLater ==
    /\ pc = "progression"
    /\ RunResult(mainOutcome(kind), processedBy("progression"), "progression")
    /\ pc' = nextStep(exitStatus(mainOutcome(kind)), "metadata")
    /\ steps' = Append(steps, [step |-> "progression",
                               exit |-> exitStatus(mainOutcome(kind))])
    /\ PROGRESSION_ISSUES' = orEmptyArray(issuesText(issues'))
    /\ UNCHANGED <<FORMAT_ISSUES, COMBINED_ISSUES, readme, sortedIssues,
                   newTable, readmeContent>>

\* step 4: title and sourceUrl are read from the file, the empty string for
\* a field the file does not have; the file was parsed by the steps before
ExtractMetadata ==
    /\ pc = "metadata"
    /\ exit' = {0}
    /\ written' = FALSE
    /\ pc' = "datasource"
    /\ steps' = Append(steps, [step |-> "metadata", exit |-> 0])
    /\ UNCHANGED <<doc, issues, last, pre, prior, preIssues, kind,
                   FORMAT_ISSUES, PROGRESSION_ISSUES, COMBINED_ISSUES, readme,
                   sortedIssues, newTable, readmeContent>>
    /\ UNCHANGED pdfVars

\* step 5: the data source section of the README gets the title of the file
UpdateDataSource ==
    /\ pc = "datasource"
    /\ readme' = IF dataSourceStatus(readme, stored.title) = 0
                 THEN updateReadmeDataSource(readme, stored.title, stored.sourceUrl)
                 ELSE readme
    /\ exit' = {dataSourceStatus(readme, stored.title)}
    /\ written' = (dataSourceStatus(readme, stored.title) = 0)
    /\ pc' = nextStep(dataSourceStatus(readme, stored.title), "merge")
    /\ steps' = Append(steps, [step |-> "datasource",
                               exit |-> dataSourceStatus(readme, stored.title)])
    /\ UNCHANGED <<doc, issues, last, pre, prior, preIssues, kind,
                   FORMAT_ISSUES, PROGRESSION_ISSUES, COMBINED_ISSUES,
                   sortedIssues, newTable, readmeContent>>
    /\ UNCHANGED pdfVars

NextLater ==
    \/ ValidateStructure
    \/ StepFormatLater
    \/ StepProgressionLater
    \/ ExtractMetadata
    \/ UpdateDataSource
    \/ MergeIssues
    \/ UpdateReadme

DataSourceSection ==
    <<"## Data Source", NL, CURRENT_START, NL, "**Current standards:** old", NL,
      CURRENT_END, NL>>

\* a README with both marker pairs, with one pair and with the other
LaterReadmes ==
    {DataSourceSection \o ReadmeWithMarkers, ReadmeWithMarkers,
     DataSourceSection \o ReadmeWithoutMarkers}

\* the title and sourceUrl of the file: both, the title alone, neither
LaterFiles ==
    {StoredFile(OsiTitle(Range2425), <<ORIGIN, "/files/", "a.pdf">>),
     StoredFile(OsiTitle(Range2425), <<>>),
     [file |-> "noTitle", title |-> <<>>, sourceUrl |-> <<>>]}

InitLater ==
    /\ doc \in ValidCourseDocs
    /\ kind \in FileKinds
    /\ issues = <<>>
    /\ last = "none"
    /\ pre = doc
    /\ prior = "none"
    /\ preIssues = <<>>
    /\ exit = {}
    /\ written = FALSE
    /\ pc = "structure"
    /\ steps = <<>>
    /\ FORMAT_ISSUES = <<>>
    /\ PROGRESSION_ISSUES = <<>>
    /\ COMBINED_ISSUES = <<>>
    /\ readme \in LaterReadmes
    /\ sortedIssues = <<>>
    /\ newTable = <<>>
    /\ readmeContent = <<>>
    /\ stored \in LaterFiles
    /\ page = NoPage
    /\ pdfResult = NotChecked

SpecLater == InitLater /\ [][NextLater]_vars


-----------------------------------------------------------------------------
(* Vocabulary of the properties *)

\* number of occurrences of the marker in a string
MarkerCount(s) ==
    Cardinality({i \in 1..(Len(s) - Len(WARNING_EMOJI) + 1) :
                    SubSeq(s, i, i + Len(WARNING_EMOJI) - 1) = WARNING_EMOJI})

Unmarked(v) == MarkerCount(v.s) = 0

\* the text of a value with one marker taken off
MarkerStripped(v) == replaceFirst(v.s, WARNING_EMOJI)

\* a seconds field is in 0..59 when it has one digit or its tens digit is below 6
SecondsInRange(ss) == Len(ss) = 1 \/ ss[1] \in {"0", "1", "2", "3", "4", "5"}

\* M+:SS.CC, the colon at position k
MinutesShape(t, k) ==
    /\ k >= 2
    /\ Len(t) = k + 5
    /\ t[k] = ":"
    /\ t[k + 3] = "."
    /\ IsDigits(SubSeq(t, 1, k - 1))
    /\ IsDigits(SubSeq(t, k + 1, k + 2))
    /\ IsDigits(SubSeq(t, k + 4, k + 5))

\* S{1,2}.CC, the dot at position k
SecondsShape(t, k) ==
    /\ k \in {2, 3}
    /\ Len(t) = k + 2
    /\ t[k] = "."
    /\ IsDigits(SubSeq(t, 1, k - 1))
    /\ IsDigits(SubSeq(t, k + 1, k + 2))

\* one of the two accepted forms with a seconds component in 0..59
Accepted(t) ==
    \/ \E k \in 1..Len(t) :
          MinutesShape(t, k) /\ SecondsInRange(SubSeq(t, k + 1, k + 2))
    \/ \E k \in 1..Len(t) :
          SecondsShape(t, k) /\ SecondsInRange(SubSeq(t, 1, k - 1))

\* one of the two forms with a seconds component of 60 or more
SecondsTooLarge(t) ==
    \/ \E k \in 1..Len(t) :
          MinutesShape(t, k) /\ ~SecondsInRange(SubSeq(t, k + 1, k + 2))
    \/ \E k \in 1..Len(t) :
          SecondsShape(t, k) /\ ~SecondsInRange(SubSeq(t, 1, k - 1))

\* a leaf the traversal visits with a present value
PresentLeaf(d, c, st) == d[c].present /\ ~d[c].times[st].isNull

HasIssue(iss, c, st, text) ==
    \E i \in 1..Len(iss) :
        iss[i].course = c /\ iss[i].standard = st /\ iss[i].issue = text

IssuesOfCourse(iss, c) == {i \in 1..Len(iss) : iss[i].course = c}

\* the last run flagged leaf (c, st): the value carries the marker (appended
\* unless it was there already) and an issue with this text names the leaf
FlaggedBy(c, st, text) ==
    /\ HasIssue(issues, c, st, text)
    /\ doc[c].times[st] =
          IF Unmarked(pre[c].times[st])
          THEN Str(pre[c].times[st].s \o WARNING_EMOJI) ELSE pre[c].times[st]

\* the last run left leaf (c, st) alone
Untouched(c, st) ==
    /\ \A i \in 1..Len(issues) : ~(issues[i].course = c /\ issues[i].standard = st)
    /\ doc[c].times[st] = pre[c].times[st]

-----------------------------------------------------------------------------
(* C1..C10 *)

\* C1: after a FormatValidator run, every present leaf is flagged ('Invalid
\* format' issue, marker on the value) if and only if its marker-stripped text
\* is not of an accepted shape; the empty string counts as not accepted.
C1_FlaggedIffNotAccepted ==
    last = "format" =>
        \A c \in Courses, st \in Standards :
            PresentLeaf(pre, c, st) =>
                IF Accepted(MarkerStripped(pre[c].times[st]))
                THEN Untouched(c, st)
                ELSE FlaggedBy(c, st, "Invalid format")

\* C1 without its empty-string case: every present non-empty leaf is flagged if
\* and only if its marker-stripped text is not of an accepted shape.
C1_NonEmptyFlaggedIffNotAccepted ==
    last = "format" =>
        \A c \in Courses, st \in Standards :
            (PresentLeaf(pre, c, st) /\ pre[c].times[st].s # <<>>) =>
                IF Accepted(MarkerStripped(pre[c].times[st]))
                THEN Untouched(c, st)
                ELSE FlaggedBy(c, st, "Invalid format")

\* C2: for every text of one of the two forms with seconds >= 60, both parsers
\* (validateTimeFormat, timeTocentiseconds) report invalid, and after one
\* FormatValidator run the stored value carries exactly one marker.
C2_SecondsTooLargeInvalid ==
    last = "format" =>
        \A c \in Courses, st \in Standards :
            (PresentLeaf(pre, c, st) /\ SecondsTooLarge(pre[c].times[st].s)) =>
                /\ ~validateTimeFormat(pre[c].times[st]).valid
                /\ timeTocentiseconds(pre[c].times[st]) = NoTime
                /\ MarkerCount(doc[c].times[st].s) = 1

\* C2 for the format parser alone: validateTimeFormat reports invalid and the
\* value carries exactly one marker after the run.
C2_FormatParserPart ==
    last = "format" =>
        \A c \in Courses, st \in Standards :
            (PresentLeaf(pre, c, st) /\ SecondsTooLarge(pre[c].times[st].s)) =>
                /\ ~validateTimeFormat(pre[c].times[st]).valid
                /\ MarkerCount(doc[c].times[st].s) = 1

\* a value FormatValidator has marked as format-invalid
FormatMarked(v) ==
    ~v.isNull /\ MarkerCount(v.s) >= 1 /\ ~Accepted(MarkerStripped(v))

\* C3: when FormatValidator ran first and a standard of a course carries a
\* format-invalid marker, the ProgressionValidator emits no issue for that
\* course and changes none of its three values.
C3_MarkedCourseSkipped ==
    (prior = "format" /\ last = "progression") =>
        \A c \in Courses :
            (pre[c].present /\ \E st \in Standards : FormatMarked(pre[c].times[st])) =>
                /\ IssuesOfCourse(issues, c) = {}
                /\ doc[c] = pre[c]

\* the three values of a course all parse to a time
AllParse(times) == \A st \in Standards : timeTocentiseconds(times[st]) # NoTime

\* the strict ordering A < B+ < B of the parsed times
Ordered(times) ==
    /\ timeTocentiseconds(times["A"]) < timeTocentiseconds(times["B+"])
    /\ timeTocentiseconds(times["B+"]) < timeTocentiseconds(times["B"])

\* C4: for every course whose three values parse, the ProgressionValidator emits
\* an 'Invalid progression' issue for it if and only if A < B+ < B does not hold
\* (equal times violate it); when it holds nothing is emitted or changed.
C4_IssueIffNotOrdered ==
    last = "progression" =>
        \A c \in Courses :
            (pre[c].present /\ AllParse(pre[c].times)) =>
                IF Ordered(pre[c].times)
                THEN IssuesOfCourse(issues, c) = {} /\ doc[c] = pre[c]
                ELSE \E i \in IssuesOfCourse(issues, c) :
                        issues[i].issue = "Invalid progression"

C4_Witness ==
    /\ last = "progression"
    /\ pre["SCY"].present
    /\ AllParse(pre["SCY"].times)
    /\ timeTocentiseconds(pre["SCY"].times["A"])
          = timeTocentiseconds(pre["SCY"].times["B+"])
    /\ IssuesOfCourse(issues, "SCY") # {}

\* a course with its three standards present and none of them marked
PresentUnmarked(d, c) ==
    /\ d[c].present
    /\ \A st \in Standards : ~d[c].times[st].isNull /\ Unmarked(d[c].times[st])

\* the derived B of the time-standards formula, in hundredths of a second:
\* A times 1.1, truncated to one decimal place, plus 0.09
expectedB(csA) == ((csA * 11) \div 100) * 10 + 9

\* the derived B+: the mean of A and the reference B, truncated to one decimal
\* place, plus 0.09
expectedBPlus(csA, csBRef) == ((csA + csBRef) \div 20) * 10 + 9

SomeMarked(d) ==
    \E c \in Courses, st \in Standards : d[c].present /\ ~Unmarked(d[c].times[st])

\* C7: a second FormatValidator run on the output of the first leaves the
\* document as the first run left it.
C7_FormatDocIdempotent ==
    (prior = "format" /\ last = "format") => doc = pre

C7_Witness ==
    /\ prior = "format"
    /\ last = "format"
    /\ SomeMarked(doc)
    /\ issues # <<>>

\* C8: a second FormatValidator run on the output of the first returns an
\* empty issue list.
C8_FormatSecondRunEmpty ==
    (prior = "format" /\ last = "format") => issues = <<>>

\* C8 as amended: a second FormatValidator run on the output of the first
\* returns the issue list of the first run again.
C8_FormatSecondRunSameIssues ==
    (prior = "format" /\ last = "format") => issues = preIssues

C8_Witness ==
    /\ prior = "format"
    /\ last = "format"
    /\ Len(issues) >= 2
    /\ \E i \in 1..Len(issues) : MarkerCount(issues[i].value) = 1

\* C9: a second ProgressionValidator run on the output of the first leaves the
\* document as the first run left it.
C9_ProgressionDocIdempotent ==
    (prior = "progression" /\ last = "progression") => doc = pre

C9_Witness ==
    /\ prior = "progression"
    /\ last = "progression"
    /\ HasIssue(issues, "SCY", "B+", "Invalid progression")
    /\ HasIssue(issues, "SCY", "B", "Invalid progression")
    /\ MarkerCount(doc["SCY"].times["B+"].s) = 1
    /\ MarkerCount(doc["SCY"].times["B"].s) = 1

\* C10: a second ProgressionValidator run on the output of the first returns
\* an empty issue list.
C10_ProgressionSecondRunEmpty ==
    (prior = "progression" /\ last = "progression") => issues = <<>>

\* C10 as amended: a second ProgressionValidator run on the output of the
\* first returns the issue list of the first run again.
C10_ProgressionSecondRunSameIssues ==
    (prior = "progression" /\ last = "progression") => issues = preIssues

C10_Witness ==
    /\ prior = "progression"
    /\ last = "progression"
    /\ Len(issues) >= 2
    /\ \E i \in 1..Len(issues) : MarkerCount(issues[i].value) = 1

\* no leaf of the document contains the marker
NoMarker(d) ==
    \A c \in Courses, st \in Standards : Unmarked(d[c].times[st])

\* the runs that start from a document without any marker
InitUnmarked == Init /\ NoMarker(doc)

SpecUnmarked == InitUnmarked /\ [][Next]_vars

\* the marker occurs at most once in s and, when it does, ends it
MarkerOnlyAsSuffix(s) ==
    \/ MarkerCount(s) = 0
    \/ /\ MarkerCount(s) = 1
       /\ Len(s) >= Len(WARNING_EMOJI)
       /\ SubSeq(s, Len(s) - Len(WARNING_EMOJI) + 1, Len(s)) = WARNING_EMOJI

\* C11: from a document without any marker, after any sequence of
\* FormatValidator and ProgressionValidator runs, every present leaf holds the
\* marker at most once, and then as its final suffix.
C11_MarkerOnceAsSuffix ==
    \A c \in Courses, st \in Standards :
        PresentLeaf(doc, c, st) => MarkerOnlyAsSuffix(doc[c].times[st].s)

C11_Witness ==
    /\ prior = "format"
    /\ last = "progression"
    /\ HasIssue(preIssues, "SCY", "A", "Invalid format")
    /\ HasIssue(issues, "SCM", "B+", "Invalid progression")
    /\ MarkerCount(doc["SCY"].times["A"].s) = 1
    /\ MarkerCount(doc["SCM"].times["B+"].s) = 1

\* C12: a run of either validator only appends the marker: every leaf has the
\* same marker-stripped text after the run as before it, a null leaf stays
\* null and no course appears or disappears.
C12_OnlyMarkerAppended ==
    last # "none" =>
        \A c \in Courses :
            /\ doc[c].present = pre[c].present
            /\ \A st \in Standards :
                /\ doc[c].times[st].isNull = pre[c].times[st].isNull
                /\ MarkerStripped(doc[c].times[st]) = MarkerStripped(pre[c].times[st])

C12_Witness ==
    /\ last = "progression"
    /\ doc["SCY"].times["B"] # pre["SCY"].times["B"]
    /\ doc["SCY"].times["B+"] # pre["SCY"].times["B+"]
    /\ doc["SCY"].times["A"] = pre["SCY"].times["A"]

-----------------------------------------------------------------------------
(* C13..C17: the order of the rows of the README table *)

\* the updater has run and has written the table
Rendered == pc = "done" /\ exit = {0} /\ COMBINED_ISSUES # <<>>

\* the rows of the written table: the lines behind the two header lines
Rows == [i \in 1..Len(sortedIssues) |-> TableRow(sortedIssues[i])]

RowAge(row) == SubSeq(row.ageGender, 3, Len(row.ageGender))
RowGender(row) == row.ageGender[1]

\* the labels that are hyphenated ranges
RangeLabels == {<<"1", "1", "-", "1", "2">>, <<"1", "3", "-", "1", "4">>}

\* the sort value of each label: the end of a range, the first integer of any
\* other label
SortValue(age) ==
    CASE age = <<"8">> -> 8
      [] age = <<"8", " ", "&", " ", "U", "n", "d", "e", "r">> -> 8
      [] age = <<"9">> -> 9
      [] age = <<"1", "0">> -> 10
      [] age = <<"1", "1">> -> 11
      [] age = <<"1", "2">> -> 12
      [] age = <<"1", "1", "-", "1", "2">> -> 12
      [] age = <<"1", "3">> -> 13
      [] age = <<"1", "4">> -> 14
      [] age = <<"1", "3", "-", "1", "4">> -> 14
      [] age = <<"1", "5">> -> 15

\* age label a may stand in a row above age label b
AgeMayPrecede(a, b) ==
    \/ SortValue(a) < SortValue(b)
    \/ SortValue(a) = SortValue(b) /\ (a \in RangeLabels => b \in RangeLabels)

\* C13: the rows of the table ascend by age sort value (the end of a range,
\* the first integer of any other label), every single age standing above
\* every range of the same sort value; the ages of the sorting test come out
\* as 8, 9, 10, 10, 11, 12, 11-12, 13, 14, 14, 14, 13-14, 15.
C13_RowsAscendByAge ==
    Rendered =>
        /\ Len(Rows) = Len(COMBINED_ISSUES)
        /\ \A i, j \in 1..Len(Rows) :
              i < j => AgeMayPrecede(RowAge(Rows[i]), RowAge(Rows[j]))
        /\ COMBINED_ISSUES \in SortingTestLists =>
              [i \in 1..Len(Rows) |-> RowAge(Rows[i])] = SortingTestAges

C13_Witness ==
    /\ Rendered
    /\ COMBINED_ISSUES \in SortingTestLists
    /\ COMBINED_ISSUES[1].age = <<"1", "5">>
    /\ RowAge(Rows[7]) = <<"1", "1", "-", "1", "2">>
    /\ RowAge(Rows[12]) = <<"1", "3", "-", "1", "4">>

\* C14: of two rows with the same age label and different genders, the Girls
\* row stands above the Boys row, whatever their event, course and standard.
C14_GirlsBeforeBoys ==
    Rendered =>
        \A i, j \in 1..Len(Rows) :
            (/\ RowAge(Rows[i]) = RowAge(Rows[j])
             /\ RowGender(Rows[i]) = "Girls"
             /\ RowGender(Rows[j]) = "Boys") => i < j

C14_Witness ==
    /\ Rendered
    /\ Len(Rows) = 3
    /\ COMBINED_ISSUES[1].gender = "Boys"
    /\ COMBINED_ISSUES[1].course = "SCY"
    /\ COMBINED_ISSUES[1].age = COMBINED_ISSUES[3].age
    /\ COMBINED_ISSUES[3].gender = "Girls"
    /\ COMBINED_ISSUES[3].course = "LCM"
    /\ COMBINED_ISSUES[3].event # COMBINED_ISSUES[1].event
    /\ RowGender(Rows[1]) = "Girls"
    /\ RowGender(Rows[3]) = "Boys"

\* the place of a course and of a standard in their fixed orders
CourseRank(c) == IF c = "SCY" THEN 1 ELSE IF c = "SCM" THEN 2 ELSE 3
StandardRank(st) == IF st = "A" THEN 1 ELSE IF st = "B+" THEN 2 ELSE 3

\* C15: rows of the same age, gender and event stand in the order SCY, SCM,
\* LCM of their courses.
C15_CoursesInFixedOrder ==
    Rendered =>
        \A i, j \in 1..Len(Rows) :
            (/\ Rows[i].ageGender = Rows[j].ageGender
             /\ Rows[i].event = Rows[j].event
             /\ CourseRank(Rows[i].course) < CourseRank(Rows[j].course)) => i < j

C15_Witness ==
    /\ Rendered
    /\ Len(Rows) = 3
    /\ [i \in 1..3 |-> COMBINED_ISSUES[i].course] = <<"LCM", "SCM", "SCY">>
    /\ [i \in 1..3 |-> Rows[i].course] = <<"SCY", "SCM", "LCM">>
    /\ \A i \in 2..3 :
          /\ Rows[i].ageGender = Rows[1].ageGender
          /\ Rows[i].event = Rows[1].event

\* C16: rows of the same age, gender, event and course stand in the order A,
\* B+, B of their standards.
C16_StandardsInFixedOrder ==
    Rendered =>
        \A i, j \in 1..Len(Rows) :
            (/\ Rows[i].ageGender = Rows[j].ageGender
             /\ Rows[i].event = Rows[j].event
             /\ Rows[i].course = Rows[j].course
             /\ StandardRank(Rows[i].standard) < StandardRank(Rows[j].standard))
                => i < j

C16_Witness ==
    /\ Rendered
    /\ Len(Rows) = 3
    /\ [i \in 1..3 |-> COMBINED_ISSUES[i].standard] = <<"B", "B+", "A">>
    /\ [i \in 1..3 |-> Rows[i].standard] = <<"A", "B+", "B">>
    /\ \A i \in 2..3 :
          /\ Rows[i].ageGender = Rows[1].ageGender
          /\ Rows[i].event = Rows[1].event
          /\ Rows[i].course = Rows[1].course

\* the rearrangements of a list
Rearrangements(list) ==
    {[i \in 1..Len(list) |-> list[p[i]]] :
        p \in {q \in [1..Len(list) -> 1..Len(list)] :
                 \A i, j \in 1..Len(list) : q[i] = q[j] => i = j}}

\* C17: the table written for an issue list is the table of every
\* rearrangement of that list.
C17_SameTableForEveryOrder ==
    (Rendered /\ Len(COMBINED_ISSUES) <= MaxIssues) =>
        \A list \in Rearrangements(COMBINED_ISSUES) :
            generateTable(list) = newTable

\* the part of C17 that holds: lists whose issues differ pairwise in age,
\* gender, event, course or standard
DistinctKeys(list) ==
    \A i, j \in 1..Len(list) :
        i # j => \/ list[i].age # list[j].age
                 \/ list[i].gender # list[j].gender
                 \/ list[i].event # list[j].event
                 \/ list[i].course # list[j].course
                 \/ list[i].standard # list[j].standard

C17_SameTableForDistinctKeys ==
    (Rendered /\ Len(COMBINED_ISSUES) <= MaxIssues /\ DistinctKeys(COMBINED_ISSUES)) =>
        \A list \in Rearrangements(COMBINED_ISSUES) :
            generateTable(list) = newTable

-----------------------------------------------------------------------------
(* C18..C20: exit status, structural errors and the order of the suite *)

\* C18: a validator run exits non-zero when the file cannot be read or parsed
\* or has no ageGroups array, and exits 0 whenever the document was processed,
\* with no issue or with some.
C18_ExitStatusTellsFailure ==
    last # "none" =>
        /\ kind \in {"missing", "notJSON", "noAgeGroups"} => exit = {1}
        /\ kind = "document" => exit = {0} /\ written
        /\ exit = {1} => issues = <<>>

C18_Witness ==
    /\ last = "format"
    /\ kind = "document"
    /\ exit = {0}
    /\ Len(issues) >= 2

\* C19: on a file without an ageGroups array a validator run fails before any
\* leaf is visited: no value changes, no issue is produced and the file is
\* not written back.
C19_NoAgeGroupsNothingDone ==
    (last # "none" /\ kind = "noAgeGroups") =>
        /\ doc = pre
        /\ issues = <<>>
        /\ ~written
        /\ exit = {1}

C19_Witness ==
    /\ last = "format"
    /\ kind = "noAgeGroups"
    /\ exit = {1}
    /\ ~validateTimeFormat(doc["SCY"].times["A"]).valid
    /\ Unmarked(doc["SCY"].times["A"])

\* the names of the steps that have run
StepNames == [i \in 1..Len(steps) |-> steps[i].step]

SuiteOrder == <<"structure", "format", "progression", "merge", "render">>

\* C20: validate-all.sh runs structure validation, FormatValidator,
\* ProgressionValidator and the README updater in this order, each step only
\* after the one before exited with 0; the updater is given the format issues
\* followed by the progression issues; after a failed structure validation no
\* other step runs and the JSON file is left as it was.
C20_StepsInOrder ==
    /\ Len(steps) <= Len(SuiteOrder)
    /\ StepNames = SubSeq(SuiteOrder, 1, Len(steps))
    /\ \A i \in 1..(Len(steps) - 1) : steps[i].exit = 0
    /\ (Len(steps) = 5) =>
          /\ prior = "format"
          /\ last = "progression"
          /\ COMBINED_ISSUES = preIssues \o issues
    /\ (Len(steps) >= 1 /\ steps[1].exit # 0) =>
          /\ Len(steps) = 1
          /\ pc = "failed"
          /\ last = "none"
          /\ doc = pre

C20_Witness ==
    /\ pc = "done"
    /\ Len(steps) = 5
    /\ HasIssue(preIssues, "SCY", "A", "Invalid format")
    /\ HasIssue(issues, "SCY", "B", "Invalid progression")
    /\ Len(Rows) = Len(preIssues) + Len(issues)

-----------------------------------------------------------------------------
(* C21, C30: the text generateTable returns *)

\* the updater ran and wrote the README
TableMade == pc = "done" /\ exit = {0}

\* the lines of a text: what stands between its newlines
NewlinesOf(text) == {i \in 1..Len(text) : text[i] = NL}

LineCount(text) == Cardinality(NewlinesOf(text)) + 1

\* the position of the k-th newline, 0 for k = 0 and behind the text for the
\* newline that would end the last line
NewlinePos(text, k) ==
    IF k = 0 THEN 0
    ELSE IF k > Cardinality(NewlinesOf(text)) THEN Len(text) + 1
    ELSE CHOOSE i \in NewlinesOf(text) :
            Cardinality({j \in NewlinesOf(text) : j <= i}) = k

LineOf(text, k) ==
    SubSeq(text, NewlinePos(text, k - 1) + 1, NewlinePos(text, k) - 1)

\* a table row that carries the seven fields of issue x in its six cells
ExpectedRow(x) ==
    <<"| ", x.gender, " ">> \o x.age \o <<" | ">> \o x.event
        \o <<" | ", x.course, " | ", x.standard, " | ", "BQ">> \o x.value
        \o <<"BQ", " | ", x.issue, " |">>

HeaderLine == <<"| Age/Gender | Event      | Course | Standard | Value       | Issue              |">>
RuleLine == <<"| ---------- | ---------- | ------ | -------- | ----------- | ------------------- |">>

\* C21: for an empty issue list generateTable returns the placeholder line
\* alone, without a header; for a non-empty list it returns the two header
\* lines followed by one row per issue.
C21_PlaceholderOrHeaderAndRows ==
    TableMade =>
        IF COMBINED_ISSUES = <<>>
        THEN newTable = <<"*(No inconsistencies found in current data)*">>
        ELSE /\ LineCount(newTable) = 2 + Len(COMBINED_ISSUES)
             /\ LineOf(newTable, 1) = HeaderLine
             /\ LineOf(newTable, 2) = RuleLine
             /\ \A k \in 3..LineCount(newTable) :
                   \E i \in 1..Len(COMBINED_ISSUES) :
                       LineOf(newTable, k) = ExpectedRow(COMBINED_ISSUES[i])

\* the updater was given the empty list and the placeholder was generated
C21_Witness ==
    /\ TableMade
    /\ COMBINED_ISSUES = <<>>
    /\ LineCount(newTable) = 1
    /\ newTable # <<>>

\* how many rows of the table are this line, how many issues render as it
RowsEqualTo(line) ==
    Cardinality({k \in 3..LineCount(newTable) : LineOf(newTable, k) = line})

IssuesRenderedAs(line) ==
    Cardinality({i \in 1..Len(COMBINED_ISSUES) :
                    ExpectedRow(COMBINED_ISSUES[i]) = line})

\* C30: the rows of the table are a rearrangement of the input issues: each
\* issue has its own row with its age, gender, event, course, tier, value and
\* issue text, and issues that agree in every sort key keep a row each.
C30_RowsArePermutation ==
    (TableMade /\ COMBINED_ISSUES # <<>>) =>
        /\ LineCount(newTable) = 2 + Len(COMBINED_ISSUES)
        /\ \A i \in 1..Len(COMBINED_ISSUES) :
              RowsEqualTo(ExpectedRow(COMBINED_ISSUES[i]))
                  = IssuesRenderedAs(ExpectedRow(COMBINED_ISSUES[i]))

\* two different issues of one leaf, and the same issue twice, were rendered
C30_Witness ==
    /\ TableMade
    /\ Len(COMBINED_ISSUES) = 3
    /\ COMBINED_ISSUES[1] = COMBINED_ISSUES[2]
    /\ COMBINED_ISSUES[3] # COMBINED_ISSUES[1]
    /\ ~DistinctKeys(<<COMBINED_ISSUES[1], COMBINED_ISSUES[3]>>)
    /\ LineCount(newTable) = 5
    /\ LineOf(newTable, 3) = LineOf(newTable, 4)
    /\ LineOf(newTable, 5) # LineOf(newTable, 3)

-----------------------------------------------------------------------------
(* C22: what updateReadme leaves of the README *)

\* the updater ran to its end, whatever its exit status
UpdaterRan == pc \in {"done", "failed"} /\ steps # <<>>

Holds(text, marker) == \E i \in 1..Len(text) : text[i] = marker

BothMarkers(text) == Holds(text, START_MARKER) /\ Holds(text, END_MARKER)

\* the text with the lines between the START marker at i and the END marker
\* at j replaced by the table
WithRegion(text, i, j, table) ==
    SubSeq(text, 1, i) \o <<NL>> \o table \o <<NL>> \o SubSeq(text, j, Len(text))

\* C22: when the README holds both markers, the new README is the old one
\* with the region between START and END replaced by the generated table,
\* the text before START and after END unchanged; when markers are missing
\* the updater fails and the README is not written.
C22_OnlyRegionReplaced ==
    UpdaterRan =>
        IF BothMarkers(readmeContent)
        THEN /\ exit = {0}
             /\ \E i, j \in 1..Len(readmeContent) :
                   /\ i < j
                   /\ readmeContent[i] = START_MARKER
                   /\ readmeContent[j] = END_MARKER
                   /\ readme = WithRegion(readmeContent, i, j, newTable)
        ELSE exit = {1} /\ ~written /\ readme = readmeContent

\* the marker pair as the updater looks for it: START at the end of a line,
\* at least one line (an empty one will do), END at the start of a line
PairAt(text, i, j) ==
    /\ i + 2 <= j /\ j + 1 <= Len(text)
    /\ text[i] = START_MARKER /\ text[i + 1] = NL
    /\ text[j] = NL /\ text[j + 1] = END_MARKER

HasPair(text) == \E i, j \in 1..Len(text) : PairAt(text, i, j)

NoDollar(text) == ~Holds(text, "$")

\* C22, the part that holds: a README with such a pair is written with the
\* text before the START marker and behind the END marker as it was, and the
\* region is the generated table when that has no dollar sign; any other
\* README makes the updater fail without writing.
C22_OutsideUnchanged ==
    UpdaterRan =>
        IF HasPair(readmeContent)
        THEN /\ exit = {0}
             /\ \E i, j \in 1..Len(readmeContent) :
                   /\ PairAt(readmeContent, i, j)
                   /\ Len(readme) >= i + 1 + Len(readmeContent) - j
                   /\ SubSeq(readme, 1, i + 1) = SubSeq(readmeContent, 1, i + 1)
                   /\ SubSeq(readme, Len(readme) - (Len(readmeContent) - j),
                                      Len(readme))
                         = SubSeq(readmeContent, j, Len(readmeContent))
                   /\ NoDollar(newTable) =>
                         readme = WithRegion(readmeContent, i, j + 1, newTable)
        ELSE exit = {1} /\ ~written /\ readme = readmeContent

-----------------------------------------------------------------------------
(* C23: the exit status of check-for-new-pdf.js *)

\* the stored title names a year range
StoredRange == loadCurrentData(stored).startYear.isNull = FALSE

NewerThanStored(link) ==
    \/ link.startYear.n > loadCurrentData(stored).startYear.n
    \/ /\ link.startYear.n = loadCurrentData(stored).startYear.n
       /\ link.endYear.n > loadCurrentData(stored).endYear.n

SameRangeOtherUrl(link) ==
    /\ link.startYear.n = loadCurrentData(stored).startYear.n
    /\ link.endYear.n = loadCurrentData(stored).endYear.n
    /\ link.href # stored.sourceUrl

SomeLinkChanged ==
    \E k \in 1..Len(osiLinks(page.anchors)) :
        \/ NewerThanStored(osiLinks(page.anchors)[k])
        \/ SameRangeOtherUrl(osiLinks(page.anchors)[k])

\* C23: with a stored year range and a fetched page the script exits with 0
\* exactly when some OSI time standards link of the page has a newer year
\* range than the stored one, or the same year range and another URL than
\* the stored sourceUrl, and with 1 otherwise; when the stored file cannot be
\* read or the page cannot be fetched it exits with 2.
C23_ChangeIffNewerOrUrlChanged ==
    pdfResult.ran =>
        IF stored.file # "ok" \/ page.fetch # "ok" THEN exit = {2}
        ELSE IF StoredRange
             THEN exit = {IF SomeLinkChanged THEN 0 ELSE 1}
             ELSE exit \subseteq {0, 1}

\* the first link of the page is the stored PDF, the second one has the same
\* year range under another URL
C23_Witness ==
    /\ pdfResult.ran
    /\ stored.file = "ok" /\ StoredRange
    /\ Len(page.anchors) = 2
    /\ Len(osiLinks(page.anchors)) = 2
    /\ ~SameRangeOtherUrl(osiLinks(page.anchors)[1])
    /\ ~NewerThanStored(osiLinks(page.anchors)[1])
    /\ SameRangeOtherUrl(osiLinks(page.anchors)[2])
    /\ exit = {0}
    /\ pdfResult.type = "URL_CHANGED"

-----------------------------------------------------------------------------
(* C24..C29: what a pass leaves alone, and what its issues hold *)

\* C24: a FormatValidator pass leaves alone every present value whose text,
\* with a marker it may carry taken off, has an accepted form: the value is
\* as it was, marker included, and no issue names its leaf.
C24_ValidLeftUntouched ==
    last = "format" =>
        \A c \in Courses, st \in Standards :
            (PresentLeaf(pre, c, st) /\ Accepted(MarkerStripped(pre[c].times[st])))
                => Untouched(c, st)

\* a marked value of an accepted form went through a pass that flagged
\* another leaf of its course
C24_Witness ==
    /\ last = "format"
    /\ \E st \in Standards :
          /\ PresentLeaf(pre, "SCY", st)
          /\ MarkerCount(pre["SCY"].times[st].s) = 1
          /\ Accepted(MarkerStripped(pre["SCY"].times[st]))
          /\ doc["SCY"].times[st] = pre["SCY"].times[st]
    /\ IssuesOfCourse(issues, "SCY") # {}

\* C25: a ProgressionValidator pass skips every course with a null A, B+ or
\* B: no issue names the course and none of its values changes.
C25_NullSkipsCourse ==
    last = "progression" =>
        \A c \in Courses :
            (pre[c].present /\ \E st \in Standards : pre[c].times[st].isNull)
                => (IssuesOfCourse(issues, c) = {} /\ doc[c] = pre[c])

\* A is null and B+ is slower than B
C25_Witness ==
    /\ last = "progression"
    /\ pre["SCY"].times["A"].isNull
    /\ timeTocentiseconds(pre["SCY"].times["B+"]) # NoTime
    /\ timeTocentiseconds(pre["SCY"].times["B"]) # NoTime
    /\ timeTocentiseconds(pre["SCY"].times["B+"])
          > timeTocentiseconds(pre["SCY"].times["B"])
    /\ doc["SCY"] = pre["SCY"]

\* in the issue list of the last run, the issue of standard s1 of a course
\* stands in front of the issue of standard s2 of that course
IssueOrder(s1, s2) ==
    \A c \in Courses :
        \A i, j \in IssuesOfCourse(issues, c) :
            (issues[i].standard = s1 /\ issues[j].standard = s2) => i < j

\* C26 as stated: when a ProgressionValidator pass flags both B and B+ of a
\* course, the B issue precedes the B+ issue in the returned list.
C26_BIssueBeforeBPlus == last = "progression" => IssueOrder("B", "B+")

\* C26 as the code has it: when a ProgressionValidator pass flags both B+ and
\* B of a course, the B+ issue precedes the B issue in the returned list.
C26_BPlusIssueBeforeB == last = "progression" => IssueOrder("B+", "B")

\* both values of the first course were flagged in one pass
C26_Witness ==
    /\ last = "progression"
    /\ HasIssue(issues, "SCY", "B+", "Invalid progression")
    /\ HasIssue(issues, "SCY", "B", "Invalid progression")
    /\ doc["SCY"].times["B+"] # pre["SCY"].times["B+"]
    /\ doc["SCY"].times["B"] # pre["SCY"].times["B"]

\* C28: every issue a pass of either validator returns holds a value with the
\* marker, and that value is the value of the issue's leaf in the document
\* the pass leaves.
C28_IssueValueIsMarkedLeaf ==
    last # "none" =>
        \A i \in 1..Len(issues) :
            /\ MarkerCount(issues[i].value) >= 1
            /\ doc[issues[i].course].present
            /\ doc[issues[i].course].times[issues[i].standard] = Str(issues[i].value)

\* a pass of each validator that marked a value and reported it
C28_Witness ==
    /\ last = "progression"
    /\ prior = "format"
    /\ preIssues # <<>>
    /\ issues # <<>>
    /\ \E i \in 1..Len(issues) :
          pre[issues[i].course].times[issues[i].standard] # Str(issues[i].value)

-----------------------------------------------------------------------------
(* C27: a validator that found nothing, in validate-all.sh *)

Passed(name) == \E k \in 1..Len(steps) : steps[k] = [step |-> name, exit |-> 0]
FailedAt(name) == \E k \in 1..Len(steps) : steps[k].step = name /\ steps[k].exit # 0

\* the README holds the placeholder between the table's markers
PlaceholderInReadme ==
    \E i \in 1..(Len(readme) - 4) :
        SubSeq(readme, i, i + 4)
            = <<START_MARKER, NL>> \o NoInconsistencies \o <<NL, END_MARKER>>

\* C27: once both validators have run in validate-all.sh, a validator that
\* found no issue has the text of the empty list in its variable, the merge
\* does not fail, a run that got through the merge goes on to the README
\* updater, and a finished run on a document without any issue has put the
\* placeholder between the markers.
C27_NoIssuesIsEmptyList ==
    Passed("progression") =>
        /\ preIssues = <<>> => FORMAT_ISSUES = EMPTY_ARRAY
        /\ issues = <<>> => PROGRESSION_ISSUES = EMPTY_ARRAY
        /\ ~FailedAt("merge")
        /\ (Passed("merge") /\ pc \in {"done", "failed"})
              => \E k \in 1..Len(steps) : steps[k].step = "render"
        /\ (pc = "done" /\ preIssues = <<>> /\ issues = <<>>)
              => (newTable = NoInconsistencies /\ PlaceholderInReadme)

\* a document without any issue went through the whole script
C27_CleanRunDone ==
    /\ pc = "done"
    /\ preIssues = <<>> /\ issues = <<>>
    /\ COMBINED_ISSUES = <<>>
    /\ PlaceholderInReadme

====
